---- MODULE Spec2Model ----
(***************************************************************************)
(* A state-machine model of the MCP multi-tool server: the tool registry   *)
(* (registry.py), the dispatcher (core.py), the transcript loader          *)
(* (utils/youtube.py), the text summarizer (utils/text.py), the git        *)
(* subprocess runner, the type and scope inference and the handlers of the *)
(* four tools (tools/*.py).                                                *)
(*                                                                         *)
(* Python strings are TLA+ strings (Len, SubSeq and \o act on them);       *)
(* Korean message texts are written as ASCII labels.  A Python dict is an  *)
(* insertion-ordered sequence of <<key, value>> pairs.                     *)
(***************************************************************************)
EXTENDS Integers, Sequences, FiniteSets, TLC

VARIABLES
    _tools,        \* ToolRegistry._tools    : dict  name -> Tool
    _handlers,     \* ToolRegistry._handlers : dict  name -> handler
    reg_log,       \* the register calls made so far, each with its outcome
    srv_pc,        \* AppServer: "new" | "startup" | "serving" | "failed"
    srv_i,         \* _register_tools: index into ALL of the next module
    listings,      \* the set of descriptor lists list_tools has returned
    req,           \* the call_tool requests in flight, one per slot
    f_pc,          \* fetch_transcript_flexible: the place the call has reached
    f_video,       \* its video_id argument
    f_language,    \* its language argument
    f_i,           \* index of the next entry of language_candidates
    transcript_data,  \* local variable transcript_data
    language_used,    \* local variable language_used
    f_calls,       \* the YouTubeTranscriptApi().fetch calls made, with outcomes
    f_ret,         \* what the call returned or raised to its caller
    g_pc,          \* _run_git_safe: the place the call has reached
    g_args,        \* its *args
    g_cwd,         \* its cwd argument
    g_proc,        \* the git subprocess: "none" | "running" | "exited" | "closed"
    g_proc_result, \* returncode, stdout and stderr of the subprocess once exited
    g_timeout_saw, \* "no", or the state of the subprocess when wait_for timed out
    g_kill_called, \* proc.kill() was called in this call
    g_ret,         \* the (code, stdout, stderr) the call returned
    h_pc,          \* a tool handler: the place the call of handle has reached
    h_tool,        \* the tool module whose handle runs
    h_args,        \* its arguments dict
    h_loc,         \* its local variables
    h_out,         \* what it returned or raised
    loop,          \* the event loop: the request task it is running, 0 for none
    t_pc,          \* each request task: the place its coroutine has reached
    t_tool,        \* each request task: the tool it calls
    t_io,          \* each request task: the external operation it has outstanding
    t_n,           \* each request task: the external operations it has completed
    git_env,       \* what a probe of git finds now, and whether git has ever been usable
    ss_pc,         \* a call of summarize_sections: "idle" | "called" | "returned"
    ss_text,       \* its text argument
    ss_max_length, \* its max_length argument
    ss_loc,        \* its locals start, mid, end and omitted at the return
    ss_ret,        \* the string it returned
    ev_pc,         \* a call of extract_video_id: "idle" | "called" | "returned"
    ev_url,        \* its url argument
    ev_ret,        \* what it returned or raised
    it_pc,         \* a call of _infer_type_and_scope: "idle" | "called" | "returned"
    it_changed,    \* its changed argument
    it_ret,        \* the (type, scope) it returned
    tr_pc,         \* a call of _truncate_subject: "idle" | "called" | "returned"
    tr_text,       \* its text argument
    tr_max_len,    \* its max_len argument
    tr_ret,        \* the string it returned
    cf_pc,         \* a rendering of a CommitContext: "idle" | "called" | "returned"
    cf_in,         \* the context, the breaking flag, the lang and the template
    cf_ret,        \* the strings of the built-in and of the template rendering
    su_pc,         \* a call of _summarize_status: "idle" | "called" | "returned"
    su_lines,      \* its lines argument
    su_ret         \* the DiffSummary it returned

regVars == <<_tools, _handlers, reg_log>>
srvVars == <<srv_pc, srv_i, listings, req>>
fetchVars == <<f_pc, f_video, f_language, f_i, transcript_data, language_used,
               f_calls, f_ret>>
gitVars == <<g_pc, g_args, g_cwd, g_proc, g_proc_result, g_timeout_saw, g_kill_called,
             g_ret>>
handleVars == <<h_pc, h_tool, h_args, h_loc, h_out>>
loopVars == <<loop, t_pc, t_tool, t_io, t_n>>
envVars == <<git_env>>
textVars == <<ss_pc, ss_text, ss_max_length, ss_loc, ss_ret>>
videoIdVars == <<ev_pc, ev_url, ev_ret>>
inferVars == <<it_pc, it_changed, it_ret>>
truncateVars == <<tr_pc, tr_text, tr_max_len, tr_ret>>
renderVars == <<cf_pc, cf_in, cf_ret>>
statusVars == <<su_pc, su_lines, su_ret>>
callVars == <<textVars, videoIdVars, inferVars, truncateVars, renderVars, statusVars>>
vars == <<regVars, srvVars, fetchVars, gitVars, handleVars, loopVars, envVars, callVars>>
notFetch == <<regVars, srvVars, gitVars, handleVars, loopVars, envVars, callVars>>
notServer == <<fetchVars, gitVars, handleVars, loopVars, envVars, callVars>>
notGit == <<regVars, srvVars, fetchVars, handleVars, loopVars, envVars, callVars>>
notHandle == <<regVars, srvVars, fetchVars, gitVars, loopVars, envVars, callVars>>
notLoop == <<regVars, srvVars, fetchVars, gitVars, handleVars, envVars, callVars>>
notEnv == <<regVars, srvVars, fetchVars, gitVars, handleVars, loopVars, callVars>>
notCall == <<regVars, srvVars, fetchVars, gitVars, handleVars, loopVars, envVars>>

(***************************************************************************)
(* Bounds of the model.                                                    *)
(***************************************************************************)
MaxRegisterCalls == 5
MaxInFlight == 2

(***************************************************************************)
(* Python dict: insertion-ordered pairs.                                   *)
(***************************************************************************)
DictHas(d, k) == \E i \in 1..Len(d) : d[i][1] = k

DictGet(d, k) == d[CHOOSE i \in 1..Len(d) : d[i][1] = k][2]

DictSet(d, k, v) ==
    IF DictHas(d, k)
    THEN [i \in 1..Len(d) |-> IF d[i][1] = k THEN <<k, v>> ELSE d[i]]
    ELSE Append(d, <<k, v>>)

DictKeys(d) == [i \in 1..Len(d) |-> d[i][1]]

DictValues(d) == [i \in 1..Len(d) |-> d[i][2]]

KeySet(d) == {d[i][1] : i \in 1..Len(d)}

(***************************************************************************)
(* Outcomes of a Python call: a returned value or a raised exception.      *)
(***************************************************************************)
Pending == [kind |-> "pending"]

Return(v) == [kind |-> "return", value |-> v]

Raise(exc, msg) == [kind |-> "raise", exc |-> exc, msg |-> msg]

TextContent(text) == [type |-> "text", text |-> text]

(***************************************************************************)
(* Python values that may be of several types: None, str, int, bool, list, *)
(* dict.  Each type keeps its payload in a field of its own.               *)
(***************************************************************************)
None == [t |-> "NoneType"]

PyStr(s) == [t |-> "str", s |-> s]

PyInt(n) == [t |-> "int", n |-> n]

PyBool(b) == [t |-> "bool", b |-> b]

PyList(l) == [t |-> "list", l |-> l]

PyDict(d) == [t |-> "dict", d |-> d]

\* bool(x)
Truthy(x) ==
    CASE x.t = "NoneType" -> FALSE
      [] x.t = "str" -> x.s # ""
      [] x.t = "int" -> x.n # 0
      [] x.t = "bool" -> x.b
      [] x.t = "list" -> x.l # <<>>
      [] x.t = "dict" -> x.d # <<>>
      [] OTHER -> TRUE

\* x or y
Or(x, y) == IF Truthy(x) THEN x ELSE y

\* d.get(k) of a dict
Get(d, k) == IF DictHas(d, k) THEN DictGet(d, k) ELSE None

\* isinstance(x, int): bool is a subclass of int
IsInt(x) == x.t \in {"int", "bool"}

\* the integer an int or a bool stands for
IntOf(x) == IF x.t = "bool" THEN (IF x.b THEN 1 ELSE 0) ELSE x.n

\* str(x), as an f-string formats it
Str(x) ==
    CASE x.t = "NoneType" -> "None"
      [] x.t = "str" -> x.s
      [] x.t = "int" -> ToString(x.n)
      [] x.t = "bool" -> IF x.b THEN "True" ELSE "False"
      [] OTHER -> "<object>"

(***************************************************************************)
(* str methods, character by character.                                    *)
(***************************************************************************)
At(s, i) == SubSeq(s, i, i)

CharSet(s) == {At(s, i) : i \in 1..Len(s)}

\* s[i:i+len(lit)] == lit, with i counted from 1
StartsAt(s, i, lit) == i + Len(lit) - 1 <= Len(s) /\ SubSeq(s, i, i + Len(lit) - 1) = lit

\* sub in s
Contains(s, sub) == \E i \in 1..Len(s) : StartsAt(s, i, sub)

Whitespace == {" ", "\t", "\n", "\r", "\f"}

RECURSIVE LStrip(_)
LStrip(s) == IF s # "" /\ At(s, 1) \in Whitespace THEN LStrip(SubSeq(s, 2, Len(s))) ELSE s

RECURSIVE RStrip(_)
RStrip(s) ==
    IF s # "" /\ At(s, Len(s)) \in Whitespace THEN RStrip(SubSeq(s, 1, Len(s) - 1)) ELSE s

\* s.strip()
Strip(s) == RStrip(LStrip(s))

UpperChars == "ABCDEFGHIJKLMNOPQRSTUVWXYZ"

LowerChars == "abcdefghijklmnopqrstuvwxyz"

LowerChar(c) ==
    IF c \in CharSet(UpperChars)
    THEN At(LowerChars, CHOOSE i \in 1..Len(UpperChars) : At(UpperChars, i) = c)
    ELSE c

RECURSIVE Lower(_)
\* s.lower()
Lower(s) == IF s = "" THEN "" ELSE LowerChar(At(s, 1)) \o Lower(SubSeq(s, 2, Len(s)))

RECURSIVE Split(_, _)
\* s.split(sep) for a separator of one character
Split(s, sep) ==
    IF \E i \in 1..Len(s) : At(s, i) = sep
    THEN LET i == CHOOSE j \in 1..Len(s) :
                     At(s, j) = sep /\ \A k \in 1..(j - 1) : At(s, k) # sep
         IN  <<SubSeq(s, 1, i - 1)>> \o Split(SubSeq(s, i + 1, Len(s)), sep)
    ELSE <<s>>

LineBreaks == {"\n", "\r", "\f"}

RECURSIVE SplitLines(_)
\* s.splitlines(): a trailing line break opens no further line, and "\r\n"
\* is one break
SplitLines(s) ==
    IF s = "" THEN <<>>
    ELSE IF \E i \in 1..Len(s) : At(s, i) \in LineBreaks
    THEN LET i == CHOOSE j \in 1..Len(s) :
                     At(s, j) \in LineBreaks /\ \A k \in 1..(j - 1) : At(s, k) \notin LineBreaks
             next == IF StartsAt(s, i, "\r\n") THEN i + 2 ELSE i + 1
         IN  <<SubSeq(s, 1, i - 1)>> \o SplitLines(SubSeq(s, next, Len(s)))
    ELSE <<s>>

RECURSIVE WordCount(_)
\* len(s.split())
WordCount(s) ==
    LET t == LStrip(s)
    IN  IF t = "" THEN 0
        ELSE IF \E i \in 1..Len(t) : At(t, i) \in Whitespace
        THEN LET i == CHOOSE j \in 1..Len(t) :
                         At(t, j) \in Whitespace /\ \A k \in 1..(j - 1) : At(t, k) \notin Whitespace
             IN  1 + WordCount(SubSeq(t, i, Len(t)))
        ELSE 1

RECURSIVE Commas(_)
\* f"{n:,}" for n >= 0
Commas(n) ==
    IF n < 1000 THEN ToString(n)
    ELSE LET r == n % 1000
         IN  Commas(n \div 1000) \o ","
               \o (IF r < 10 THEN "00" ELSE IF r < 100 THEN "0" ELSE "") \o ToString(r)

(***************************************************************************)
(* utils/text.py                                                           *)
(***************************************************************************)
SentenceEnds == {".", "!", "?"}

RECURSIVE SplitSentences(_)
\* re.split(r'(?<=[.!?])\s+', text), line 36: a split at every run of
\* whitespace that follows a sentence end
SplitSentences(text) ==
    LET Cut(i) == i > 1 /\ At(text, i) \in Whitespace /\ At(text, i - 1) \in SentenceEnds
    IN  IF \E i \in 1..Len(text) : Cut(i)
        THEN LET i == CHOOSE j \in 1..Len(text) : Cut(j) /\ \A k \in 1..(j - 1) : ~Cut(k)
             IN  <<SubSeq(text, 1, i - 1)>>
                   \o SplitSentences(LStrip(SubSeq(text, i, Len(text))))
        ELSE <<text>>

RECURSIVE TakeStart_uncapped(_, _, _)
\* The loop of lines 41-45 without the test against start_cap.
TakeStart_uncapped(sentences, start, cap) ==
    IF sentences # <<>>
    THEN TakeStart_uncapped(Tail(sentences), start \o Head(sentences) \o " ", cap)
    ELSE start

RECURSIVE TakeStart(_, _, _)
\* Lines 39-45: sentences from the front while they fit; the first that does
\* not fit ends the loop.
TakeStart(sentences, start, cap) ==
    IF sentences # <<>> /\ Len(start) + Len(Head(sentences)) < cap
    THEN TakeStart(Tail(sentences), start \o Head(sentences) \o " ", cap)
    ELSE start

RECURSIVE TakeMid(_, _, _, _, _)
\* Lines 51-53: every sentence of sentences[i:hi] that fits, skipping those
\* that do not; i is counted from 0.
TakeMid(sentences, i, hi, mid, cap) ==
    IF i >= hi THEN mid
    ELSE IF Len(mid) + Len(sentences[i + 1]) < cap
    THEN TakeMid(sentences, i + 1, hi, mid \o sentences[i + 1] \o " ", cap)
    ELSE TakeMid(sentences, i + 1, hi, mid, cap)

RECURSIVE TakeEnd(_, _, _)
\* Lines 58-62: sentences from the back while they fit.
TakeEnd(sentences, end, cap) ==
    IF sentences # <<>> /\ Len(end) + Len(sentences[Len(sentences)]) < cap
    THEN TakeEnd(SubSeq(sentences, 1, Len(sentences) - 1),
                 sentences[Len(sentences)] \o " " \o end, cap)
    ELSE end

Max(a, b) == IF a >= b THEN a ELSE b

Min(a, b) == IF a <= b THEN a ELSE b

MidWindow == 5

\* Lines 39-65 of summarize_sections: the three excerpts as accumulated and
\* the omitted count.  int(n * 0.4) and int(n * 0.2) are the floors of 4n/10
\* and 2n/10 for n >= 0; for n < 0 either rounding gives a cap that no
\* sentence fits under.
Excerpts(text, max_length) ==
    LET sentences == SplitSentences(text)
        start == TakeStart(sentences, "", (4 * max_length) \div 10)
        mid_i == Len(sentences) \div 2
        mid == TakeMid(sentences, Max(0, mid_i - MidWindow),
                       Min(Len(sentences), mid_i + MidWindow), "",
                       (2 * max_length) \div 10)
        end == TakeEnd(sentences, "", (4 * max_length) \div 10)
    IN  [start |-> start, mid |-> mid, end |-> end,
         omitted |-> Max(0, Len(text) - Len(start) - Len(mid) - Len(end))]

\* Lines 68-82: the labelled composite.  Each Korean character of a label is
\* written as one ASCII character, so that lengths are those of the code.
Composite(x) ==
    "**[start]**\n" \o Strip(x.start) \o "\n\n... *~ "
      \o Commas(x.omitted) \o "c om* ...\n\n**[midst]**\n"
      \o Strip(x.mid) \o "\n\n... *om* ...\n\n**[ending]**\n" \o Strip(x.end)

\* summarize_sections without the early return of lines 32-33.
summarize_sections_always(text, max_length) == Composite(Excerpts(text, max_length))

\* summarize_sections(text, max_length)
summarize_sections(text, max_length) ==
    IF Len(text) <= max_length THEN text
    ELSE Composite(Excerpts(text, max_length))

(***************************************************************************)
(* tools/__init__.py: the tool modules, each exporting tool_spec and       *)
(* handle.                                                                 *)
(***************************************************************************)
ALL == <<"summarize_youtube", "transcript_stats", "ping", "commit_suggester">>

tool_spec(mod) == [name |-> mod, description |-> mod \o " tool"]

handle(mod) == [module |-> mod, fn |-> "handle"]

(***************************************************************************)
(* registry.py                                                             *)
(***************************************************************************)
\* ToolRegistry.register with the duplicate check left out.
register_overwrite(tool, handler) ==
    /\ _tools' = DictSet(_tools, tool.name, tool)
    /\ _handlers' = DictSet(_handlers, tool.name, handler)
    /\ reg_log' = Append(reg_log, [tool |-> tool, handler |-> handler,
                                   out |-> Return(None)])

\* A register that stores the descriptor and not the handler.
register_descriptor_only(tool, handler) ==
    IF DictHas(_tools, tool.name)
    THEN /\ reg_log' = Append(reg_log, [tool |-> tool, handler |-> handler,
                out |-> Raise("ValueError", "Duplicate tool: " \o tool.name)])
         /\ UNCHANGED <<_tools, _handlers>>
    ELSE /\ _tools' = DictSet(_tools, tool.name, tool)
         /\ reg_log' = Append(reg_log, [tool |-> tool, handler |-> handler,
                                        out |-> Return(None)])
         /\ UNCHANGED _handlers

\* ToolRegistry.register(tool, handler)
register(tool, handler) ==
    IF DictHas(_tools, tool.name)
    THEN /\ reg_log' = Append(reg_log, [tool |-> tool, handler |-> handler,
                out |-> Raise("ValueError", "Duplicate tool: " \o tool.name)])
         /\ UNCHANGED <<_tools, _handlers>>
    ELSE /\ _tools' = DictSet(_tools, tool.name, tool)
         /\ _handlers' = DictSet(_handlers, tool.name, handler)
         /\ reg_log' = Append(reg_log, [tool |-> tool, handler |-> handler,
                                        out |-> Return(None)])

\* ToolRegistry.tools: list(self._tools.values())
tools == DictValues(_tools)

\* get_handler that answers an unknown name with the ping handler.
get_handler_default(name) ==
    IF ~DictHas(_handlers, name)
    THEN Return(handle("ping"))
    ELSE Return(DictGet(_handlers, name))

\* ToolRegistry.get_handler(name)
get_handler(name) ==
    IF ~DictHas(_handlers, name)
    THEN Raise("ValueError", "Unknown tool: " \o name)
    ELSE Return(DictGet(_handlers, name))

(***************************************************************************)
(* Initial states of the components.                                       *)
(***************************************************************************)
\* ToolRegistry.__init__
RegInit ==
    /\ _tools = <<>>
    /\ _handlers = <<>>
    /\ reg_log = <<>>

Slots == 1..MaxInFlight

IdleRequest == [pc |-> "idle"]

\* The process before AppServer() is constructed.
SrvInit ==
    /\ srv_pc = "new"
    /\ srv_i = 1
    /\ listings = {}
    /\ req = [r \in Slots |-> IdleRequest]

\* No fetch_transcript_flexible call has been made.
FetchInit ==
    /\ f_pc = "idle"
    /\ f_video = ""
    /\ f_language = None
    /\ f_i = 1
    /\ transcript_data = None
    /\ language_used = None
    /\ f_calls = <<>>
    /\ f_ret = Pending

\* No _run_git_safe call has been made.
GitInit ==
    /\ g_pc = "idle"
    /\ g_args = <<>>
    /\ g_cwd = None
    /\ g_proc = "none"
    /\ g_proc_result = <<0, "", "">>
    /\ g_timeout_saw = "no"
    /\ g_kill_called = FALSE
    /\ g_ret = <<0, "", "">>

\* The local variables of the handlers before any is assigned.
NoLocals ==
    [url |-> "", language |-> None, max_len |-> 0, vid |-> "",
     mode |-> "", rng |-> None, custom_format |-> None, rules |-> None, lang |-> "",
     suggestions |-> None, breaking |-> FALSE, debug |-> FALSE,
     repo_check_cwd |-> None, debug_info |-> <<>>,
     allowed_types |-> None, require_scope |-> FALSE, subject_max |-> 0,
     allow_emoji |-> FALSE, scope_enum |-> None,
     changed |-> <<>>,
     stats |-> [added |-> 0, modified |-> 0, deleted |-> 0, renamed |-> 0],
     branch |-> None, ctype_in |-> None, ctype |-> None, scope_in |-> None,
     scope_guess |-> None,
     subject_templates |-> <<>>, subjects |-> <<>>, messages |-> <<>>]

\* git is installed and works.
EnvInit == git_env = [now |-> "ok", ok_seen |-> TRUE]

\* The locals of summarize_sections before line 39.
NoExcerpts == [start |-> "", mid |-> "", end |-> "", omitted |-> 0]

NoStats == [added |-> 0, modified |-> 0, deleted |-> 0, renamed |-> 0]

\* A CommitContext of empty fields.
NoContext ==
    [type |-> "", scope |-> None, subject |-> "", body |-> <<>>, emoji |-> "",
     branch |-> None, stats |-> NoStats, files_changed |-> 0, files_added |-> 0,
     files_modified |-> 0, files_deleted |-> 0]

\* No call of summarize_sections, of extract_video_id, of
\* _infer_type_and_scope is under way.
TextIdle ==
    /\ ss_pc = "idle" /\ ss_text = "" /\ ss_max_length = 0
    /\ ss_loc = NoExcerpts /\ ss_ret = ""

VideoIdIdle == ev_pc = "idle" /\ ev_url = None /\ ev_ret = Pending

InferIdle == it_pc = "idle" /\ it_changed = <<>> /\ it_ret = <<"", None>>

\* No call of _truncate_subject, of a rendering, of _summarize_status is
\* under way.
TruncateIdle == tr_pc = "idle" /\ tr_text = "" /\ tr_max_len = 0 /\ tr_ret = ""

RenderIdle ==
    /\ cf_pc = "idle"
    /\ cf_in = [context |-> NoContext, breaking |-> FALSE, lang |-> "", format |-> ""]
    /\ cf_ret = [conventional |-> "", custom |-> ""]

StatusIdle ==
    /\ su_pc = "idle" /\ su_lines = <<>>
    /\ su_ret = [changed |-> <<>>, stats |-> NoStats]

\* No call of a utility function is under way.
CallInit ==
    /\ TextIdle /\ VideoIdIdle /\ InferIdle
    /\ TruncateIdle /\ RenderIdle /\ StatusIdle

MaxTasks == 2

Tasks == 1..MaxTasks

\* No request task exists and the event loop is idle.
LoopInit ==
    /\ loop = 0
    /\ t_pc = [t \in Tasks |-> "new"]
    /\ t_tool = [t \in Tasks |-> ""]
    /\ t_io = [t \in Tasks |-> "none"]
    /\ t_n = [t \in Tasks |-> 0]

\* No handler has been called.
HandleInit ==
    /\ h_pc = "idle"
    /\ h_tool = ""
    /\ h_args = <<>>
    /\ h_loc = NoLocals
    /\ h_out = Pending

(***************************************************************************)
(* SpecRegistry: a fresh ToolRegistry driven by any sequence of register   *)
(* calls.  The (tool, handler) pairs offered are the four of the server's  *)
(* startup plus two that reuse the name ping with another descriptor or    *)
(* another handler.                                                        *)
(***************************************************************************)
RegPairs ==
    {<<tool_spec(ALL[i]), handle(ALL[i])>> : i \in 1..Len(ALL)}
    \cup {<<[name |-> "ping", description |-> "another ping"], handle("ping")>>,
          <<tool_spec("ping"), handle("transcript_stats")>>}

RegisterCall ==
    /\ Len(reg_log) < MaxRegisterCalls
    /\ \E p \in RegPairs : register(p[1], p[2])
    /\ UNCHANGED <<srvVars, notServer>>

InitRegistry == RegInit /\ SrvInit /\ FetchInit /\ GitInit /\ HandleInit /\ LoopInit /\ EnvInit
    /\ CallInit

NextRegistry == RegisterCall

SpecRegistry == InitRegistry /\ [][NextRegistry]_vars

(***************************************************************************)
(* core.py: AppServer.  Spec is the server process: construction           *)
(* (_register_tools over ALL), then list_tools and call_tool requests,     *)
(* up to MaxInFlight of them overlapping.                                  *)
(***************************************************************************)
\* AppServer.__init__: Server(...), ToolRegistry()
AppServerNew ==
    /\ srv_pc = "new"
    /\ srv_pc' = "startup"
    /\ UNCHANGED <<regVars, srv_i, listings, req, notServer>>

\* AppServer._register_tools: one iteration of the loop over ALL.  A
\* ValueError from register leaves __init__ and the server never serves.
RegisterTools ==
    /\ srv_pc = "startup"
    /\ LET mod == ALL[srv_i]
           dup == DictHas(_tools, tool_spec(mod).name)
       IN  /\ register(tool_spec(mod), handle(mod))
           /\ srv_pc' = IF reg_log'[Len(reg_log')].out.kind = "raise" THEN "failed"
                        ELSE IF srv_i = Len(ALL) THEN "serving" ELSE "startup"
           /\ srv_i' = srv_i + 1
    /\ UNCHANGED <<listings, req, notServer>>

\* list_tools(): return self.registry.tools
ListTools ==
    /\ srv_pc = "serving"
    /\ listings' = listings \cup {tools}
    /\ UNCHANGED <<regVars, srv_pc, srv_i, req, notServer>>

\* The arguments and the handler outcomes the requests are drawn from.
CallNames == {ALL[i] : i \in 1..Len(ALL)} \cup {"no_such_tool"}

CallArguments == {<<>>, << <<"url", "https://youtu.be/dQw4w9WgXcQ">> >>}

HandlerResults ==
    {<<>>, <<TextContent("pong")>>, <<TextContent("")>>}

HandlerExceptions ==
    {Raise("AttributeError", "'int' object has no attribute 'strip'"),
     Raise("KeyError", "fr")}

\* call_tool, lines 76-79: get_handler(name), then handler(arguments) is
\* awaited.  get_handler is outside the try: its ValueError leaves call_tool.
call_tool_start(name, arguments) ==
    LET h == get_handler(name)
    IN  IF h.kind = "raise"
        THEN [pc |-> "raised", name |-> name, arguments |-> arguments,
              invoked |-> <<>>, size |-> 0, hout |-> Pending,
              out |-> h]
        ELSE [pc |-> "awaiting", name |-> name, arguments |-> arguments,
              invoked |-> <<[handler |-> h.value, arguments |-> arguments]>>,
              size |-> 0, hout |-> Pending,
              out |-> Pending]

\* call_tool, lines 81-86: the handler returned `result`.
call_tool_done(q, result) ==
    [q EXCEPT !.pc = "returned",
              !.size = IF result # <<>> /\ result[1].type = "text"
                       THEN Len(result[1].text) ELSE 0,
              !.out = Return(result)]

\* The except clause that awaits the handler once more instead of re-raising.
call_tool_retry(q, e) ==
    IF Len(q.invoked) = 1
    THEN [q EXCEPT !.invoked = Append(q.invoked, q.invoked[1])]
    ELSE [q EXCEPT !.pc = "raised", !.out = e]

\* call_tool, lines 87-90: the handler raised e; log and re-raise.
call_tool_except(q, e) ==
    [q EXCEPT !.pc = "raised", !.out = e]

\* call_tool that registers a placeholder for a name it does not know.
CallTool_autoregister(r) ==
    /\ srv_pc = "serving"
    /\ req[r].pc = "idle"
    /\ \E name \in CallNames, arguments \in CallArguments :
          /\ req' = [req EXCEPT ![r] = call_tool_start(name, arguments)]
          /\ IF DictHas(_handlers, name)
             THEN UNCHANGED regVars
             ELSE register_overwrite(tool_spec(name), handle("ping"))
    /\ UNCHANGED <<srv_pc, srv_i, listings, notServer>>

\* A call_tool request arrives: lines 72-79 run up to the await.
CallTool(r) ==
    /\ srv_pc = "serving"
    /\ req[r].pc = "idle"
    /\ \E name \in CallNames, arguments \in CallArguments :
          req' = [req EXCEPT ![r] = call_tool_start(name, arguments)]
    /\ UNCHANGED <<regVars, srv_pc, srv_i, listings, notServer>>

HandlerReturns(r) ==
    /\ req[r].pc = "awaiting"
    /\ \E result \in HandlerResults :
          req' = [req EXCEPT ![r] =
                    call_tool_done([req[r] EXCEPT !.hout = Return(result)], result)]
    /\ UNCHANGED <<regVars, srv_pc, srv_i, listings, notServer>>

HandlerRaises(r) ==
    /\ req[r].pc = "awaiting"
    /\ \E e \in HandlerExceptions :
          req' = [req EXCEPT ![r] =
                    call_tool_except([req[r] EXCEPT !.hout = e], e)]
    /\ UNCHANGED <<regVars, srv_pc, srv_i, listings, notServer>>

\* The transport sends the response (result or error) and the slot is free.
Respond(r) ==
    /\ req[r].pc \in {"returned", "raised"}
    /\ req' = [req EXCEPT ![r] = IdleRequest]
    /\ UNCHANGED <<regVars, srv_pc, srv_i, listings, notServer>>

Init == RegInit /\ SrvInit /\ FetchInit /\ GitInit /\ HandleInit /\ LoopInit /\ EnvInit
    /\ CallInit

Next ==
    \/ AppServerNew
    \/ RegisterTools
    \/ ListTools
    \/ \E r \in Slots : CallTool(r)
    \/ \E r \in Slots : HandlerReturns(r)
    \/ \E r \in Slots : HandlerRaises(r)
    \/ \E r \in Slots : Respond(r)

Spec == Init /\ [][Next]_vars

(***************************************************************************)
(* utils/youtube.py: fetch_transcript_flexible.  The transcript service    *)
(* (YouTubeTranscriptApi().fetch) is external: each call either raises or  *)
(* returns a transcript, which may hold no entries.  Entry times are whole *)
(* seconds.                                                                *)
(***************************************************************************)
IdChars == "0123456789ABCDEFGHIJKLMNOPQRSTUVWXYZabcdefghijklmnopqrstuvwxyz_-"

VideoIdLength == 11

\* ([0-9A-Za-z_-]{11}) matches at position i
IdAt(s, i) ==
    /\ i + VideoIdLength - 1 <= Len(s)
    /\ \A k \in i..(i + VideoIdLength - 1) : At(s, k) \in CharSet(IdChars)

\* Where each of the three patterns of lines 35-39 matches at position i, the
\* position of its group 1; 0 where it does not match.  The third pattern is
\* a raw string with a doubled backslash: a backslash and any one character
\* but a newline stand between "youtu" and "be/".
PatternAt(p, s, i) ==
    CASE p = 1 -> IF StartsAt(s, i, "v=") /\ IdAt(s, i + 2) THEN i + 2
                  ELSE IF StartsAt(s, i, "/") /\ IdAt(s, i + 1) THEN i + 1
                  ELSE 0
      [] p = 2 -> IF StartsAt(s, i, "embed/") /\ IdAt(s, i + 6) THEN i + 6 ELSE 0
      [] OTHER -> IF /\ StartsAt(s, i, "youtu\\")
                     /\ i + 6 <= Len(s)
                     /\ At(s, i + 6) # "\n"
                     /\ StartsAt(s, i + 7, "be/")
                     /\ IdAt(s, i + 10)
                  THEN i + 10 ELSE 0

NumPatterns == 3

\* re.search(patterns[p], s): group 1 of the leftmost match, "" for no match
Search(p, s) ==
    IF \E i \in 1..Len(s) : PatternAt(p, s, i) # 0
    THEN LET i == CHOOSE j \in 1..Len(s) :
                     PatternAt(p, s, j) # 0 /\ \A k \in 1..(j - 1) : PatternAt(p, s, k) = 0
             g == PatternAt(p, s, i)
         IN  SubSeq(s, g, g + VideoIdLength - 1)
    ELSE ""

\* extract_video_id with the patterns tried from the last to the first.
extract_video_id_last(url) ==
    LET u == Or(url, PyStr(""))
    IN  IF u.t # "str" THEN Raise("TypeError", "expected string or bytes-like object")
        ELSE IF \E p \in 1..NumPatterns : Search(p, u.s) # ""
        THEN LET p == CHOOSE q \in 1..NumPatterns :
                         Search(q, u.s) # ""
                           /\ \A r \in (q + 1)..NumPatterns : Search(r, u.s) = ""
             IN  Return(PyStr(Search(p, u.s)))
        ELSE Return(None)

\* extract_video_id(url): the id, None, or the TypeError re.search raises
\* for a value that is no string
extract_video_id(url) ==
    LET u == Or(url, PyStr(""))
    IN  IF u.t # "str" THEN Raise("TypeError", "expected string or bytes-like object, got '" \o u.t \o "'")
        ELSE IF \E p \in 1..NumPatterns : Search(p, u.s) # ""
        THEN LET p == CHOOSE q \in 1..NumPatterns :
                         Search(q, u.s) # "" /\ \A r \in 1..(q - 1) : Search(r, u.s) = ""
             IN  Return(PyStr(Search(p, u.s)))
        ELSE Return(None)

Entry(text, start, duration) == [text |-> text, start |-> start, duration |-> duration]

Transcripts ==
    {<<>>,
     <<Entry("hello", 0, 3)>>,
     <<Entry("hello", 0, 3), Entry("world", 70, 5)>>}

FetchRaises == [raised |-> TRUE]

FetchReturns(t) == [raised |-> FALSE, data |-> t]

ServiceOutcomes == {FetchRaises} \cup {FetchReturns(t) : t \in Transcripts}

\* One call of the service: fetch(video_id, languages=langs), or
\* fetch(video_id) when by_default.
ServiceCall(video_id, langs, by_default, outcome) ==
    [video_id |-> video_id, languages |-> langs, by_default |-> by_default,
     outcome |-> outcome]

\* language_candidates, lines 175-182
language_candidates ==
    << [langs |-> <<"ko">>,             name |-> "Korean"],
       [langs |-> <<"ko-auto">>,        name |-> "Korean (auto-generated)"],
       [langs |-> <<"en">>,             name |-> "English"],
       [langs |-> <<"en-US", "en-GB">>, name |-> "English"],
       [langs |-> <<"ja">>,             name |-> "Japanese"],
       [langs |-> <<"ja-auto">>,        name |-> "Japanese (auto-generated)"] >>

UnknownDuration == "unknown"

RECURSIVE Join(_, _)
\* sep.join(texts)
Join(sep, texts) ==
    IF texts = <<>> THEN ""
    ELSE IF Len(texts) = 1 THEN texts[1]
    ELSE texts[1] \o sep \o Join(sep, Tail(texts))

\* _calc(full): (duration string, full text)
_calc(full) ==
    LET texts == [i \in 1..Len(full) |-> full[i].text]
        full_text == Join(" ", texts)
    IN  IF full # <<>>
        THEN LET last == full[Len(full)]
                 total == last.start + last.duration
             IN  <<ToString(total \div 60) \o "min " \o ToString(total % 60) \o "sec",
                   full_text>>
        ELSE <<UnknownDuration, full_text>>

\* `not transcript_data`
NoTranscript(td) == td.t = "NoneType" \/ td.l = <<>>

\* fetch_transcript_flexible(video_id, language) is entered: lines 120-121
\* and the test of line 161.
FetchStart(video_id, language) ==
    /\ f_pc = "idle"
    /\ f_video' = video_id
    /\ f_language' = language
    /\ transcript_data' = None
    /\ language_used' = None
    /\ f_i' = 1
    /\ f_pc' = IF Truthy(language) THEN "language" ELSE "candidates"
    /\ UNCHANGED <<f_calls, f_ret>>

\* Lines 162-166: the fetch restricted to [language].
FetchLanguage ==
    /\ f_pc = "language"
    /\ \E o \in ServiceOutcomes :
          /\ f_calls' = Append(f_calls, ServiceCall(f_video, <<Str(f_language)>>, FALSE, o))
          /\ IF o.raised
             THEN /\ f_pc' = "language_auto"
                  /\ UNCHANGED <<transcript_data, language_used>>
             ELSE /\ transcript_data' = PyList(o.data)
                  /\ language_used' = f_language
                  /\ f_pc' = "check"
    /\ UNCHANGED <<f_video, f_language, f_i, f_ret, notFetch>>

\* The retry that, on failure, goes on to the language candidates.
FetchLanguageAuto_fallthrough ==
    /\ f_pc = "language_auto"
    /\ \E o \in ServiceOutcomes :
          /\ f_calls' = Append(f_calls,
                ServiceCall(f_video, <<Str(f_language) \o "-auto", Str(f_language)>>, FALSE, o))
          /\ IF o.raised
             THEN /\ transcript_data' = None
                  /\ f_pc' = "candidates"
                  /\ UNCHANGED language_used
             ELSE /\ transcript_data' = PyList(o.data)
                  /\ language_used' = PyStr(Str(f_language) \o " (auto-generated)")
                  /\ f_pc' = "check"
    /\ UNCHANGED <<f_video, f_language, f_i, f_ret, notFetch>>

\* Lines 167-172: the retry with [language-auto, language].
FetchLanguageAuto ==
    /\ f_pc = "language_auto"
    /\ \E o \in ServiceOutcomes :
          /\ f_calls' = Append(f_calls,
                ServiceCall(f_video, <<Str(f_language) \o "-auto", Str(f_language)>>, FALSE, o))
          /\ IF o.raised
             THEN /\ transcript_data' = None
                  /\ UNCHANGED language_used
             ELSE /\ transcript_data' = PyList(o.data)
                  /\ language_used' = PyStr(Str(f_language) \o " (auto-generated)")
          /\ f_pc' = "check"
    /\ UNCHANGED <<f_video, f_language, f_i, f_ret, notFetch>>

\* Lines 185-194: one iteration of the loop over language_candidates.  A
\* success breaks out of the loop; the test `if not transcript_data` of
\* line 194 then decides whether the default fetch follows.
FetchCandidate ==
    /\ f_pc = "candidates"
    /\ \E o \in ServiceOutcomes :
          /\ f_calls' = Append(f_calls,
                ServiceCall(f_video, language_candidates[f_i].langs, FALSE, o))
          /\ IF o.raised
             THEN /\ f_i' = f_i + 1
                  /\ f_pc' = IF f_i = Len(language_candidates) THEN "default"
                             ELSE "candidates"
                  /\ UNCHANGED <<transcript_data, language_used>>
             ELSE /\ transcript_data' = PyList(o.data)
                  /\ language_used' = PyStr(language_candidates[f_i].name)
                  /\ f_pc' = IF NoTranscript(PyList(o.data)) THEN "default" ELSE "check"
                  /\ UNCHANGED f_i
    /\ UNCHANGED <<f_video, f_language, f_ret, notFetch>>

\* Lines 195-199: fetch(video_id) with no languages; its failure raises
\* Exception, which the outer except of line 209 catches.
FetchDefault ==
    /\ f_pc = "default"
    /\ \E o \in ServiceOutcomes :
          /\ f_calls' = Append(f_calls, ServiceCall(f_video, <<>>, TRUE, o))
          /\ IF o.raised
             THEN /\ f_pc' = "except"
                  /\ UNCHANGED <<transcript_data, language_used>>
             ELSE /\ transcript_data' = PyList(o.data)
                  /\ language_used' = PyStr("default language")
                  /\ f_pc' = "check"
    /\ UNCHANGED <<f_video, f_language, f_i, f_ret, notFetch>>

\* Lines 201-207: the empty result, or _calc and the full result.
FetchReturn ==
    /\ f_pc = "check"
    /\ f_ret' = IF NoTranscript(transcript_data)
                THEN Return(<<<<>>, language_used, UnknownDuration, "">>)
                ELSE LET c == _calc(transcript_data.l)
                     IN  Return(<<transcript_data.l, language_used, c[1], c[2]>>)
    /\ f_pc' = "done"
    /\ UNCHANGED <<f_video, f_language, f_i, transcript_data, language_used, f_calls,
                   notFetch>>

\* An outer handler that lets the exception leave the function.
FetchExcept_reraise ==
    /\ f_pc = "except"
    /\ f_ret' = Raise("Exception", "no transcript available")
    /\ f_pc' = "done"
    /\ UNCHANGED <<f_video, f_language, f_i, transcript_data, language_used, f_calls,
                   notFetch>>

\* Lines 209-212: the outer except logs and returns the empty result.
FetchExcept ==
    /\ f_pc = "except"
    /\ f_ret' = Return(<<<<>>, language_used, UnknownDuration, "">>)
    /\ f_pc' = "done"
    /\ UNCHANGED <<f_video, f_language, f_i, transcript_data, language_used, f_calls,
                   notFetch>>

(***************************************************************************)
(* SpecFetch: one call of fetch_transcript_flexible with any video id and  *)
(* language value, against a service that may fail or succeed on each call.*)
(***************************************************************************)
VideoIds == {"dQw4w9WgXcQ", "xxxxxxxxxxx"}

Languages == {None, PyStr(""), PyStr("ko"), PyStr("fr"), PyInt(5)}

FetchCall ==
    /\ \E v \in VideoIds, l \in Languages : FetchStart(v, l)
    /\ UNCHANGED notFetch

InitFetch == RegInit /\ SrvInit /\ FetchInit /\ GitInit /\ HandleInit /\ LoopInit /\ EnvInit
    /\ CallInit

NextFetch ==
    \/ FetchCall
    \/ FetchLanguage
    \/ FetchLanguageAuto
    \/ FetchCandidate
    \/ FetchDefault
    \/ FetchReturn
    \/ FetchExcept

SpecFetch == InitFetch /\ [][NextFetch]_vars

(***************************************************************************)
(* tools/commit_suggester.py: the git environment checks and               *)
(* _run_git_safe.  The git executable, the file system and the subprocess  *)
(* are external: their outcomes are chosen nondeterministically.  The      *)
(* subprocess runs on its own: it may exit by itself at any time, or never;*)
(* once killed it exits.  "exited" is a subprocess that has terminated     *)
(* while the event loop has not yet seen both of its pipes close; "closed" *)
(* is one whose transport has finished, which is what communicate() waits  *)
(* for and what makes Process.kill() raise ProcessLookupError.             *)
(***************************************************************************)
GitProbes == {"ok", "not_on_path", "version_failed", "version_timeout", "version_exception"}

\* _check_git_availability(), given what shutil.which and `git --version` do
_check_git_availability(probe) ==
    CASE probe = "not_on_path" ->
           <<FALSE, "git not found; check that Git is installed and on PATH">>
      [] probe = "ok" ->
           <<TRUE, "Git available (path: /usr/bin/git, version: git version 2.39.2)">>
      [] probe = "version_failed" -> <<FALSE, "git --version failed: fatal: broken">>
      [] probe = "version_timeout" -> <<FALSE, "git command timed out">>
      [] OTHER -> <<FALSE, "exception while probing git: OSError">>

\* What shutil.which and 'git --version' find now.
GitNow == git_env.now

\* git is installed, removed or broken while the server runs.
EnvChanges ==
    /\ \E probe \in GitProbes \ {GitNow} :
          git_env' = [now |-> probe,
                      ok_seen |-> git_env.ok_seen \/ _check_git_availability(probe)[1]]
    /\ UNCHANGED notEnv

RepoProbes == {"here", "in_parent", "absent"}

\* Path.cwd() of the server process
CwdPath == "/work"

\* Path(p).parent
Parent(p) ==
    LET cut == CHOOSE i \in 1..Len(p) : At(p, i) = "/" /\ \A k \in (i + 1)..Len(p) : At(p, k) # "/"
    IN  IF cut = 1 THEN "/" ELSE SubSeq(p, 1, cut - 1)

\* _check_git_repository(cwd), given where a .git entry exists: in the
\* directory itself, in its parent, or nowhere above it
_check_git_repository(cwd, probe) ==
    LET check_dir == IF Truthy(cwd) THEN cwd.s ELSE CwdPath
    IN  CASE probe = "here" -> <<TRUE, "Git repository found (path: " \o check_dir \o ")">>
          [] probe = "in_parent" ->
               <<TRUE, "Git repository found (parent path: " \o Parent(check_dir) \o ")">>
          [] OTHER ->
               <<FALSE, "Not a git repository. Current path: " \o check_dir
                          \o "\\n'git init' or run in a directory that holds a repository.">>

GitTimeoutSeconds == 10

TimeoutCode == 124

KilledCode == -9

\* The outcomes of a git subprocess that exits by itself.
ProcResults ==
    {<<0, "", "">>,
     <<0, "M\tREADME.md\n", "">>,
     <<0, "A\tsrc/app/main.py\n", "">>,
     <<0, "feature/login\n", "">>,
     <<128, "", "fatal: bad revision">>}

\* What git rev-parse --abbrev-ref HEAD can print: a branch, HEAD when no
\* branch is checked out, an error in a repository without a commit.
BranchResults ==
    {<<0, "main\n", "">>,
     <<0, "feature/login\n", "">>,
     <<0, "fixture\n", "">>,
     <<0, "HEAD\n", "">>,
     <<128, "", "fatal: ambiguous argument 'HEAD'">>}

\* The results the command of the call can have.
ResultsOf(args) ==
    IF args # <<>> /\ args[1] = PyStr("rev-parse") THEN BranchResults ELSE ProcResults

SpawnOutcomes == {"started", "FileNotFoundError", "PermissionError", "OSError"}

\* String arguments as the Python values they are.
PyArgs(strs) == [i \in 1..Len(strs) |-> PyStr(strs[i])]

\* The arguments as ' '.join takes them.
StrArgs(args) == [i \in 1..Len(args) |-> args[i].s]

\* _run_git_safe(*args, cwd=cwd) is entered.
GitStart(args, cwd) ==
    /\ g_pc = "idle"
    /\ g_args' = args
    /\ g_cwd' = cwd
    /\ g_pc' = "availability"
    /\ UNCHANGED <<g_proc, g_proc_result, g_timeout_saw, g_kill_called, g_ret>>

\* _run_git_safe(*args, cwd=cwd) is entered after an earlier call has returned.
GitStartNext(args, cwd) ==
    /\ g_pc = "returned"
    /\ g_args' = args
    /\ g_cwd' = cwd
    /\ g_pc' = "availability"
    /\ g_proc' = "none"
    /\ g_proc_result' = <<0, "", "">>
    /\ g_timeout_saw' = "no"
    /\ g_kill_called' = FALSE
    /\ UNCHANGED g_ret

\* Lines 334-340: the availability check; 127 when git cannot be used.
GitAvailability ==
    /\ g_pc = "availability"
    /\ \E probe \in {GitNow} :
          LET a == _check_git_availability(probe)
          IN  IF ~a[1]
              THEN /\ g_ret' = <<127, "", a[2]>>
                   /\ g_pc' = "returned"
              ELSE /\ g_pc' = IF g_args # <<>> /\ g_args[1] \notin {PyStr("--version"), PyStr("init")}
                              THEN "repository" ELSE "spawn"
                   /\ UNCHANGED g_ret
    /\ UNCHANGED <<g_args, g_cwd, g_proc, g_proc_result, g_timeout_saw, g_kill_called,
                   notGit>>

\* Lines 342-349: the repository check; 128 when there is none.
GitRepository ==
    /\ g_pc = "repository"
    /\ \E probe \in RepoProbes :
          LET a == _check_git_repository(g_cwd, probe)
          IN  IF ~a[1]
              THEN /\ g_ret' = <<128, "", a[2]>>
                   /\ g_pc' = "returned"
              ELSE /\ g_pc' = "spawn"
                   /\ UNCHANGED g_ret
    /\ UNCHANGED <<g_args, g_cwd, g_proc, g_proc_result, g_timeout_saw, g_kill_called,
                   notGit>>

\* Lines 356-361 and 378-387: create_subprocess_exec starts git or raises;
\* it raises TypeError for a program argument that is no string.
GitSpawn ==
    /\ g_pc = "spawn"
    /\ \E o \in SpawnOutcomes :
          CASE \E i \in 1..Len(g_args) : g_args[i].t # "str" ->
                 /\ g_ret' = <<1, "", "exception while running git: expected str, bytes "
                                        \o "or os.PathLike object">>
                 /\ g_pc' = "returned"
                 /\ UNCHANGED g_proc
            [] o = "started" ->
                 /\ g_proc' = "running"
                 /\ g_pc' = "communicate"
                 /\ UNCHANGED g_ret
            [] o = "FileNotFoundError" ->
                 /\ g_ret' = <<127, "", "git command not found">>
                 /\ g_pc' = "returned"
                 /\ UNCHANGED g_proc
            [] o = "PermissionError" ->
                 /\ g_ret' = <<126, "", "no permission to run git">>
                 /\ g_pc' = "returned"
                 /\ UNCHANGED g_proc
            [] OTHER ->
                 /\ g_ret' = <<1, "", "exception while running git: OSError">>
                 /\ g_pc' = "returned"
                 /\ UNCHANGED g_proc
    /\ UNCHANGED <<g_args, g_cwd, g_proc_result, g_timeout_saw, g_kill_called, notGit>>

\* The subprocess exits by itself.
ProcExits ==
    /\ g_proc = "running"
    /\ \E res \in ResultsOf(g_args) : g_proc_result' = res
    /\ g_proc' = "exited"
    /\ UNCHANGED <<g_pc, g_args, g_cwd, g_timeout_saw, g_kill_called, g_ret, notGit>>

\* The subprocess dies of the SIGKILL it was sent.
ProcKilled ==
    /\ g_proc = "running"
    /\ g_kill_called
    /\ g_proc_result' = <<KilledCode, "", "">>
    /\ g_proc' = "exited"
    /\ UNCHANGED <<g_pc, g_args, g_cwd, g_timeout_saw, g_kill_called, g_ret, notGit>>

\* The event loop sees the pipes of the terminated subprocess close.
TransportCloses ==
    /\ g_proc = "exited"
    /\ g_proc' = "closed"
    /\ UNCHANGED <<g_pc, g_args, g_cwd, g_proc_result, g_timeout_saw, g_kill_called,
                   g_ret, notGit>>

\* Lines 366-371: communicate() completed within the timeout.
GitCommunicated ==
    /\ g_pc = "communicate"
    /\ g_proc = "closed"
    /\ g_ret' = g_proc_result
    /\ g_pc' = "returned"
    /\ UNCHANGED <<g_args, g_cwd, g_proc, g_proc_result, g_timeout_saw, g_kill_called,
                   notGit>>

\* Line 366, 372: the timeout passes with communicate() still pending;
\* wait_for raises TimeoutError.
GitTimeout ==
    /\ g_pc = "communicate"
    /\ g_proc \in {"running", "exited"}
    /\ g_timeout_saw' = g_proc
    /\ g_pc' = "timeout"
    /\ UNCHANGED <<g_args, g_cwd, g_proc, g_proc_result, g_kill_called, g_ret, notGit>>

\* Line 374: proc.kill().  On a subprocess whose transport has finished it
\* raises ProcessLookupError, which line 384 catches.
GitKill ==
    /\ g_pc = "timeout"
    /\ g_kill_called' = TRUE
    /\ IF g_proc = "closed"
       THEN /\ g_ret' = <<1, "", "exception while running git: ">>
            /\ g_pc' = "returned"
       ELSE /\ g_pc' = "wait"
            /\ UNCHANGED g_ret
    /\ UNCHANGED <<g_args, g_cwd, g_proc, g_proc_result, g_timeout_saw, notGit>>

\* Lines 375-376: await proc.wait() completes; the timeout outcome.
GitWaited ==
    /\ g_pc = "wait"
    /\ g_proc \in {"exited", "closed"}
    /\ g_ret' = <<TimeoutCode, "",
                  "git " \o Join(" ", StrArgs(g_args)) \o " timed out ("
                    \o ToString(GitTimeoutSeconds) \o "s)">>
    /\ g_pc' = "returned"
    /\ UNCHANGED <<g_args, g_cwd, g_proc, g_proc_result, g_timeout_saw, g_kill_called,
                   notGit>>

(***************************************************************************)
(* SpecGit: one call of _run_git_safe with the argument lists the tool     *)
(* uses.  The code's own steps are weakly fair (the event loop runs a      *)
(* ready coroutine and fires a timer that is due); a killed subprocess     *)
(* exits; a subprocess left alone need not.                                *)
(***************************************************************************)
GitArgLists ==
    {PyArgs(<<"diff", "--staged", "--name-status">>),
     PyArgs(<<"diff", "--name-status">>),
     PyArgs(<<"diff", "--name-status", "HEAD~3..HEAD">>),
     PyArgs(<<"rev-parse", "--abbrev-ref", "HEAD">>),
     PyArgs(<<"--version">>),
     PyArgs(<<"diff", "--name-status">>) \o <<PyInt(3)>>}

GitCwds == {None, PyStr("/repo")}

GitCall ==
    /\ \E args \in GitArgLists, cwd \in GitCwds : GitStart(args, cwd)
    /\ UNCHANGED notGit

InitGit == RegInit /\ SrvInit /\ FetchInit /\ GitInit /\ HandleInit /\ LoopInit /\ EnvInit
    /\ CallInit

NextGit ==
    \/ GitCall
    \/ EnvChanges
    \/ GitAvailability
    \/ GitRepository
    \/ GitSpawn
    \/ ProcExits
    \/ ProcKilled
    \/ TransportCloses
    \/ GitCommunicated
    \/ GitTimeout
    \/ GitKill
    \/ GitWaited

FairGit ==
    /\ WF_vars(GitAvailability)
    /\ WF_vars(GitRepository)
    /\ WF_vars(GitSpawn)
    /\ WF_vars(GitCommunicated)
    /\ WF_vars(GitTimeout)
    /\ WF_vars(GitKill)
    /\ WF_vars(GitWaited)
    /\ WF_vars(ProcKilled)

SpecGit == InitGit /\ [][NextGit]_vars /\ FairGit

(***************************************************************************)
(* The tool handlers.  handle(arguments) of a tool module runs in steps;   *)
(* where it awaits fetch_transcript_flexible or _run_git_safe, the steps   *)
(* of that call run in between.                                            *)
(***************************************************************************)
\* handle(arguments) of module tool is entered.
HandleStart(tool, arguments) ==
    /\ h_pc = "idle"
    /\ h_tool' = tool
    /\ h_args' = arguments
    /\ h_loc' = NoLocals
    /\ h_out' = Pending
    /\ h_pc' = "entered"

\* The handler returns [TextContent(type="text", text=text)].
ReturnText(text) ==
    /\ h_out' = Return(<<TextContent(text)>>)
    /\ h_pc' = "done"

\* An exception leaves the handler.
RaiseOut(exc, msg) ==
    /\ h_out' = Raise(exc, msg)
    /\ h_pc' = "done"

\* tools/ping.py, handle
PingHandle ==
    /\ h_pc = "entered"
    /\ h_tool = "ping"
    /\ ReturnText("pong")
    /\ UNCHANGED <<h_tool, h_args, h_loc, notHandle>>

DefaultMaxLen == 1000

MinMaxLen == 200

MaxMaxLen == 5000

\* summarize_youtube.handle, lines 92-96: a str is stripped and lower-cased,
\* and is None when blank; any other value is left as it is
NormalizeLanguage(language) ==
    IF language.t = "str"
    THEN IF Strip(language.s) = "" THEN None ELSE PyStr(Lower(Strip(language.s)))
    ELSE language

\* summarize_youtube.handle, lines 99-106
ClampMaxLen(max_len) ==
    LET m == IF IsInt(max_len) THEN IntOf(max_len) ELSE DefaultMaxLen
    IN  IF m < MinMaxLen THEN MinMaxLen ELSE IF m > MaxMaxLen THEN MaxMaxLen ELSE m

\* summarize_youtube.handle, lines 91-118: the arguments are normalised and
\* the video id extracted; the transcript fetch starts for a valid URL.
SummarizeParse ==
    /\ h_pc = "entered"
    /\ h_tool = "summarize_youtube"
    /\ LET raw == Or(Get(h_args, "url"), PyStr(""))
       IN  IF raw.t # "str"
           THEN /\ RaiseOut("AttributeError",
                            "'" \o raw.t \o "' object has no attribute 'strip'")
                /\ UNCHANGED <<h_loc, fetchVars>>
           ELSE LET url == Strip(raw.s)
                    language == NormalizeLanguage(Get(h_args, "language"))
                    max_len == ClampMaxLen(Get(h_args, "max_summary_length"))
                    vid == extract_video_id(PyStr(url)).value
                IN  /\ h_loc' = [h_loc EXCEPT !.url = url, !.language = language,
                                              !.max_len = max_len,
                                              !.vid = IF Truthy(vid) THEN vid.s ELSE ""]
                    /\ IF ~Truthy(vid)
                       THEN /\ ReturnText(
                                 "Not a valid YouTube URL. Example: https://youtu.be/<VIDEO_ID>")
                            /\ UNCHANGED fetchVars
                       ELSE /\ FetchStart(vid.s, language)
                            /\ h_pc' = "fetching"
                            /\ UNCHANGED h_out
    /\ UNCHANGED <<h_tool, h_args, regVars, srvVars, gitVars, loopVars, envVars, callVars>>

\* summarize_youtube.handle, lines 118-143: the fetch has returned; without
\* data the handler returns its guidance, with data the summary message.
SummarizeFetched ==
    /\ h_pc = "fetching"
    /\ h_tool = "summarize_youtube"
    /\ f_pc = "done"
    /\ IF f_ret.kind = "raise"
       THEN RaiseOut(f_ret.exc, f_ret.msg)
       ELSE LET data == f_ret.value[1]
                lang_used == f_ret.value[2]
                duration_str == f_ret.value[3]
                full_text == f_ret.value[4]
            IN  IF data = <<>>
                THEN ReturnText("No transcript available. Try another language code "
                                  \o "(e.g. ko, en, ja) or check for auto-generated captions.")
                ELSE ReturnText(
                       "**Video**\n"
                         \o "- video id: " \o h_loc.vid \o "\n"
                         \o "- duration: " \o duration_str \o "\n"
                         \o "- transcript used: " \o Str(lang_used) \o "\n"
                         \o "- full text: " \o Commas(Len(full_text)) \o " chars\n"
                         \o "- words: " \o Commas(WordCount(full_text)) \o "\n"
                         \o "- segments: " \o Commas(Len(data)) \o "\n"
                         \o "- summary length limit: " \o Commas(h_loc.max_len) \o " chars\n\n"
                         \o "**Summary**\n" \o summarize_sections(full_text, h_loc.max_len)
                         \o "\n\n**Hints**\n- lower `max_summary_length` for a shorter one.\n"
                         \o "- name a `language` (e.g. 'ko', 'en-US') for that transcript only.\n")
    /\ UNCHANGED <<h_tool, h_args, h_loc, notHandle>>

\* transcript_stats.handle, lines 59-69: the arguments are taken as they are
\* and the video id extracted; the transcript fetch starts for a valid URL.
StatsParse ==
    /\ h_pc = "entered"
    /\ h_tool = "transcript_stats"
    /\ LET url == Get(h_args, "url")
           language == Get(h_args, "language")
           vid == extract_video_id(url)
       IN  IF vid.kind = "raise"
           THEN /\ RaiseOut(vid.exc, vid.msg)
                /\ UNCHANGED <<h_loc, fetchVars>>
           ELSE /\ h_loc' = [h_loc EXCEPT !.language = language,
                                          !.vid = IF Truthy(vid.value) THEN vid.value.s
                                                  ELSE ""]
                /\ IF ~Truthy(vid.value)
                   THEN /\ ReturnText("Not a valid YouTube URL.")
                        /\ UNCHANGED fetchVars
                   ELSE /\ FetchStart(vid.value.s, language)
                        /\ h_pc' = "fetching"
                        /\ UNCHANGED h_out
    /\ UNCHANGED <<h_tool, h_args, regVars, srvVars, gitVars, loopVars, envVars, callVars>>

\* transcript_stats.handle, lines 69-85
StatsFetched ==
    /\ h_pc = "fetching"
    /\ h_tool = "transcript_stats"
    /\ f_pc = "done"
    /\ IF f_ret.kind = "raise"
       THEN RaiseOut(f_ret.exc, f_ret.msg)
       ELSE LET data == f_ret.value[1]
                lang_used == f_ret.value[2]
                duration_str == f_ret.value[3]
                full_text == f_ret.value[4]
            IN  IF data = <<>>
                THEN ReturnText("No transcript found.")
                ELSE ReturnText(
                       "Stats\n"
                         \o "- language: " \o Str(Or(lang_used, PyStr("unknown"))) \o "\n"
                         \o "- segments: " \o ToString(Len(data)) \o "\n"
                         \o "- text length: " \o ToString(Len(full_text)) \o " chars\n"
                         \o "- estimated duration: " \o duration_str \o "\n")
    /\ UNCHANGED <<h_tool, h_args, h_loc, notHandle>>

DigitChars == "0123456789"

RECURSIVE DigitsValue(_)
\* the number a string of digits writes
DigitsValue(s) ==
    IF s = "" THEN 0
    ELSE 10 * DigitsValue(SubSeq(s, 1, Len(s) - 1))
           + ((CHOOSE i \in 1..Len(DigitChars) : At(DigitChars, i) = At(s, Len(s))) - 1)

\* int(x): the number of an int or a bool; of a str, its optionally signed
\* digits with surrounding whitespace ignored, ValueError otherwise;
\* TypeError for None, a list or a dict
int(x) ==
    CASE IsInt(x) -> Return(IntOf(x))
      [] x.t = "str" ->
           LET t == Strip(x.s)
               signed == t # "" /\ At(t, 1) \in {"+", "-"}
               digits == IF signed THEN SubSeq(t, 2, Len(t)) ELSE t
           IN  IF digits # "" /\ \A i \in 1..Len(digits) : At(digits, i) \in CharSet(DigitChars)
               THEN Return(IF signed /\ At(t, 1) = "-" THEN 0 - DigitsValue(digits)
                           ELSE DigitsValue(digits))
               ELSE Raise("ValueError", "invalid literal for int() with base 10: '" \o x.s \o "'")
      [] OTHER -> Raise("TypeError", "int() argument must be a string or a real number")

DefaultTypes ==
    PyList(PyArgs(<<"feat", "fix", "docs", "refactor", "test", "chore", "build", "perf", "ci">>))

DefaultSubjectMax == 72

DefaultSuggestions == 3

\* The kinds of file system entry a path may name.
PathKinds == {"dir", "file", "missing"}

\* Lines 828-830: the candidate path made absolute, for a path without
\* "." or ".." segments and without symbolic links
Resolve(path) == IF StartsAt(path, 1, "/") THEN path ELSE CwdPath \o "/" \o path

\* The debug section appended to a message.
DebugSuffix(debug_info) == "\\n\\n[debug info]:\\n" \o Join("\\n", debug_info)

\* commit_suggester.handle, lines 794-865: the arguments are read, the path
\* validated against the file system and the rules read.  An attribute or a
\* conversion that a value of the wrong type lacks raises.
CommitParse ==
    /\ h_pc = "entered"
    /\ h_tool = "commit_suggester"
    /\ \E kind \in PathKinds :
       LET mode_arg == Or(Get(h_args, "mode"), PyStr("staged"))
           rules == Or(Get(h_args, "rules"), PyDict(<<>>))
           lang_arg == Or(Get(h_args, "language"), PyStr("ko"))
           debug == Truthy(Get(h_args, "debug"))
           path_arg == Get(h_args, "path")
           candidate == Resolve(path_arg.s)
           repo_check_cwd == IF Truthy(path_arg) THEN PyStr(candidate) ELSE None
           mode == Lower(mode_arg.s)
           debug_info ==
               IF debug
               THEN <<"debug mode on",
                      "working directory: " \o CwdPath,
                      "mode: " \o mode,
                      "path base: " \o Str(Or(repo_check_cwd, PyStr(CwdPath)))>>
               ELSE <<>>
           subject_max == int(Or(Get(rules.d, "subject_max"), PyInt(DefaultSubjectMax)))
       IN  CASE mode_arg.t # "str" ->
                  /\ RaiseOut("AttributeError",
                              "'" \o mode_arg.t \o "' object has no attribute 'lower'")
                  /\ UNCHANGED h_loc
             [] mode_arg.t = "str" /\ lang_arg.t # "str" ->
                  /\ RaiseOut("AttributeError",
                              "'" \o lang_arg.t \o "' object has no attribute 'lower'")
                  /\ UNCHANGED h_loc
             [] mode_arg.t = "str" /\ lang_arg.t = "str" /\ Truthy(path_arg)
                  /\ path_arg.t # "str" ->
                  /\ ReturnText("'path' must be a string. Example: path: './' or 'subdir/'")
                  /\ UNCHANGED h_loc
             [] mode_arg.t = "str" /\ lang_arg.t = "str" /\ Truthy(path_arg)
                  /\ path_arg.t = "str" /\ kind # "dir" ->
                  /\ ReturnText("The given path does not exist or is no directory: "
                                  \o candidate)
                  /\ UNCHANGED h_loc
             [] OTHER ->
                  IF rules.t # "dict"
                  THEN /\ RaiseOut("AttributeError",
                                   "'" \o rules.t \o "' object has no attribute 'get'")
                       /\ UNCHANGED h_loc
                  ELSE IF subject_max.kind = "raise"
                  THEN /\ RaiseOut(subject_max.exc, subject_max.msg)
                       /\ UNCHANGED h_loc
                  ELSE /\ h_loc' = [h_loc EXCEPT
                              !.mode = mode,
                              !.rng = Get(h_args, "range"),
                              !.custom_format = Get(h_args, "format"),
                              !.rules = rules,
                              !.lang = Lower(lang_arg.s),
                              !.suggestions = Or(Get(h_args, "suggestions"),
                                                 PyInt(DefaultSuggestions)),
                              !.breaking = Truthy(Get(h_args, "breaking")),
                              !.debug = debug,
                              !.repo_check_cwd = repo_check_cwd,
                              !.debug_info = debug_info,
                              !.allowed_types = Or(Get(rules.d, "types"), DefaultTypes),
                              !.require_scope = Truthy(Get(rules.d, "require_scope")),
                              !.subject_max = subject_max.value,
                              !.allow_emoji = Truthy(Get(rules.d, "allow_emoji")),
                              !.scope_enum = Get(rules.d, "scope_enum")]
                       /\ h_pc' = "check_git"
                       /\ UNCHANGED h_out
    /\ UNCHANGED <<h_tool, h_args, notHandle>>

\* commit_suggester.handle, lines 869-878: git must be usable.
CommitCheckGit ==
    /\ h_pc = "check_git"
    /\ \E probe \in {GitNow} :
          LET a == _check_git_availability(probe)
              debug_info == IF h_loc.debug
                            THEN Append(h_loc.debug_info, "git check: " \o a[2])
                            ELSE h_loc.debug_info
          IN  /\ h_loc' = [h_loc EXCEPT !.debug_info = debug_info]
              /\ IF ~a[1]
                 THEN ReturnText("Git setup problem\\n\\n" \o a[2]
                        \o "\\n\\nHow to fix:\\n1. install Git: https://git-scm.com/"
                        \o "\\n2. put git on PATH\\n3. try 'git --version' in a terminal"
                        \o (IF h_loc.debug THEN DebugSuffix(debug_info) ELSE ""))
                 ELSE /\ h_pc' = "check_repo"
                      /\ UNCHANGED h_out
    /\ UNCHANGED <<h_tool, h_args, notHandle>>

\* commit_suggester.handle, lines 881-890: the directory must be inside a
\* repository.
CommitCheckRepo ==
    /\ h_pc = "check_repo"
    /\ \E probe \in RepoProbes :
          LET a == _check_git_repository(h_loc.repo_check_cwd, probe)
              debug_info == IF h_loc.debug
                            THEN Append(h_loc.debug_info, "repository check: " \o a[2])
                            ELSE h_loc.debug_info
          IN  /\ h_loc' = [h_loc EXCEPT !.debug_info = debug_info]
              /\ IF ~a[1]
                 THEN ReturnText("Git repository problem\\n\\n" \o a[2]
                        \o "\\n\\nHow to fix:\\n1. move to a directory with a repository"
                        \o "\\n2. start one: 'git init'\\n3. clone one: 'git clone <URL>'"
                        \o (IF h_loc.debug THEN DebugSuffix(debug_info) ELSE ""))
                 ELSE /\ h_pc' = "diff"
                      /\ UNCHANGED h_out
    /\ UNCHANGED <<h_tool, h_args, notHandle>>

RECURSIVE SummarizeFrom_second(_, _, _)
\* The loop with parts[1], the field after the status, as the path.
SummarizeFrom_second(lines, changed, stats) ==
    IF lines = <<>> THEN [changed |-> changed, stats |-> stats]
    ELSE LET line == Strip(Head(lines))
             parts == Split(line, "\t")
             c == At(parts[1], 1)
         IN  IF line = "" \/ Len(parts) < 2
             THEN SummarizeFrom_second(Tail(lines), changed, stats)
             ELSE SummarizeFrom_second(Tail(lines),
                    Append(changed, <<c, parts[2]>>),
                    CASE c = "A" -> [stats EXCEPT !.added = @ + 1]
                      [] c = "M" -> [stats EXCEPT !.modified = @ + 1]
                      [] c = "D" -> [stats EXCEPT !.deleted = @ + 1]
                      [] c = "R" -> [stats EXCEPT !.renamed = @ + 1]
                      [] OTHER -> stats)

RECURSIVE SummarizeFrom(_, _, _)
\* The loop of _summarize_status, lines 451-478, over the lines left, with
\* the changed list and the stats gathered so far.
SummarizeFrom(lines, changed, stats) ==
    IF lines = <<>> THEN [changed |-> changed, stats |-> stats]
    ELSE LET line == Strip(Head(lines))
             parts == Split(line, "\t")
             c == At(parts[1], 1)
         IN  IF line = "" \/ Len(parts) < 2
             THEN SummarizeFrom(Tail(lines), changed, stats)
             ELSE SummarizeFrom(Tail(lines),
                    Append(changed, <<c, parts[Len(parts)]>>),
                    CASE c = "A" -> [stats EXCEPT !.added = @ + 1]
                      [] c = "M" -> [stats EXCEPT !.modified = @ + 1]
                      [] c = "D" -> [stats EXCEPT !.deleted = @ + 1]
                      [] c = "R" -> [stats EXCEPT !.renamed = @ + 1]
                      [] OTHER -> stats)

_summarize_status(lines) ==
    SummarizeFrom(lines, <<>>, [added |-> 0, modified |-> 0, deleted |-> 0, renamed |-> 0])

\* An alternative of a regular expression that is more than a literal: a
\* sequence of characters, "any" for the dot, and whether a $ ends it.
Pattern(chars, dollar) == [chars |-> chars, dollar |-> dollar]

\* The alternative matches s at position i.  The dot takes any character but
\* a newline; $ is the end of s or the place before a newline that ends s.
PatternMatchesAt(pat, s, i) ==
    LET n == Len(pat.chars)
    IN  /\ i + n - 1 <= Len(s)
        /\ \A k \in 1..n :
              IF pat.chars[k] = "any" THEN At(s, i + k - 1) # "\n"
              ELSE At(s, i + k - 1) = pat.chars[k]
        /\ pat.dollar => \/ i + n - 1 = Len(s)
                         \/ i + n = Len(s) /\ At(s, Len(s)) = "\n"

\* The regular expressions of lines 517-533 in the order of the if/elif
\* chain, each with the type it gives.  The patterns are raw strings in which
\* the backslash is doubled: '\\.' is a backslash followed by any character.
\* [s|z] is a class of three characters.
TypeGroups ==
    <<[type |-> "fix",
       keywords |-> {"fix", "bug", "error", "exception", "hotfix"},
       patterns |-> {}],
      [type |-> "docs",
       keywords |-> {"doc", "readme", "mkdocs", "docs/"},
       patterns |-> {Pattern(<<"\\", "any", "m", "d">>, TRUE)}],
      [type |-> "test",
       keywords |-> {"test", "spec", "pytest", "jest", "__tests__"},
       patterns |-> {Pattern(<<"\\", "any", "t", "e", "s", "t", "\\", "any">>, FALSE),
                     Pattern(<<"\\", "any", "s", "p", "e", "c", "\\", "any">>, FALSE)}],
      [type |-> "build",
       keywords |-> {"build", "dockerfile", "docker-compose"},
       patterns |-> {Pattern(<<"\\", "any", "l", "o", "c", "k">>, TRUE),
                     Pattern(<<"p", "a", "c", "k", "a", "g", "e", "\\", "any",
                               "j", "s", "o", "n">>, FALSE),
                     Pattern(<<"r", "e", "q", "u", "i", "r", "e", "m", "e", "n", "t", "s",
                               "\\", "any", "t", "x", "t">>, FALSE)}],
      [type |-> "refactor",
       keywords |-> {"refactor", "rename", "cleanup", "restructure"},
       patterns |-> {}],
      [type |-> "perf",
       keywords |-> {"perf", "benchmark", "optimise", "optimize", "optimi|e"},
       patterns |-> {}]>>

\* re.search(<the expression of group g>, lower_blob)
GroupMatches(g, lower_blob) ==
    \/ \E kw \in g.keywords : Contains(lower_blob, kw)
    \/ \E pat \in g.patterns :
          \E i \in 1..Len(lower_blob) : PatternMatchesAt(pat, lower_blob, i)

RECURSIVE FirstMatch(_, _)
\* The if/elif chain of lines 517-537 from its i-th test on.
FirstMatch(i, lower_blob) ==
    IF i > Len(TypeGroups) THEN "feat"
    ELSE IF GroupMatches(TypeGroups[i], lower_blob) THEN TypeGroups[i].type
    ELSE FirstMatch(i + 1, lower_blob)

\* The chain with the test for docs put before the test for fix.
InferType_docs_first(lower_blob) ==
    IF GroupMatches(TypeGroups[2], lower_blob) THEN "docs" ELSE FirstMatch(1, lower_blob)

\* Lines 517-537: ctype
InferType(lower_blob) == FirstMatch(1, lower_blob)

RECURSIVE JoinPaths(_)
\* "\\n".join(paths), line 511: the separator is a backslash and the letter n
JoinPaths(paths) ==
    IF paths = <<>> THEN ""
    ELSE IF Len(paths) = 1 THEN paths[1]
    ELSE paths[1] \o "\\n" \o JoinPaths(Tail(paths))

RECURSIVE InferScope_dots(_)
\* The loop of lines 543-548 without the test against '.' and '..'.
InferScope_dots(paths) ==
    IF paths = <<>> THEN None
    ELSE LET parts == Split(Head(paths), "/")
         IN  IF Len(parts) > 1 THEN PyStr(parts[1]) ELSE InferScope_dots(Tail(paths))

RECURSIVE InferScope(_)
\* Lines 542-548: scope
InferScope(paths) ==
    IF paths = <<>> THEN None
    ELSE LET parts == Split(Head(paths), "/")
         IN  IF Len(parts) > 1 /\ parts[1] \notin {".", ".."} THEN PyStr(parts[1])
             ELSE InferScope(Tail(paths))

\* _infer_type_and_scope(changed)
_infer_type_and_scope(changed) ==
    IF changed = <<>> THEN <<"chore", None>>
    ELSE LET paths == [i \in 1..Len(changed) |-> changed[i][2]]
             lower_blob == Lower(JoinPaths(paths))
         IN  <<InferType(lower_blob), InferScope(paths)>>

\* str(stats) of the stats dict
StatsRepr(stats) ==
    "{'added': " \o ToString(stats.added) \o ", 'modified': " \o ToString(stats.modified)
      \o ", 'deleted': " \o ToString(stats.deleted) \o ", 'renamed': "
      \o ToString(stats.renamed) \o "}"

ErrPreviewLength == 100

\* The hint of lines 927-930 for an empty diff, by language; the dict has
\* these two keys only.
EmptyDiffHint ==
    <<  <<"ko", "(ko) No changes. Modify files first, or run 'git add' for staged mode.">>,
        <<"en", "No changes. Modify files first, or run 'git add' for staged mode.">>  >>

\* The diff command is started whatever the mode and the range are.
CommitDiff_any_mode ==
    /\ h_pc = "diff"
    /\ GitStart(PyArgs(<<"diff", "--name-status">>), h_loc.repo_check_cwd)
    /\ h_pc' = "diffing"
    /\ UNCHANGED <<h_tool, h_args, h_loc, h_out, regVars, srvVars, fetchVars, loopVars,
                   envVars, callVars>>

\* commit_suggester.handle, lines 895-908: the diff command of the mode is
\* started, or the mode is refused.
CommitDiff ==
    /\ h_pc = "diff"
    /\ CASE h_loc.mode = "staged" ->
              /\ GitStart(PyArgs(<<"diff", "--staged", "--name-status">>),
                          h_loc.repo_check_cwd)
              /\ h_pc' = "diffing"
              /\ UNCHANGED h_out
         [] h_loc.mode = "working" ->
              /\ GitStart(PyArgs(<<"diff", "--name-status">>), h_loc.repo_check_cwd)
              /\ h_pc' = "diffing"
              /\ UNCHANGED h_out
         [] h_loc.mode = "range" /\ ~Truthy(h_loc.rng) ->
              /\ ReturnText("mode=range without a range value. Example: HEAD~3..HEAD")
              /\ UNCHANGED gitVars
         [] h_loc.mode = "range" /\ Truthy(h_loc.rng) ->
              /\ GitStart(PyArgs(<<"diff", "--name-status">>) \o <<h_loc.rng>>,
                          h_loc.repo_check_cwd)
              /\ h_pc' = "diffing"
              /\ UNCHANGED h_out
         [] OTHER ->
              /\ ReturnText("unknown mode: " \o h_loc.mode)
              /\ UNCHANGED gitVars
    /\ UNCHANGED <<h_tool, h_args, h_loc, regVars, srvVars, fetchVars, loopVars, envVars, callVars>>

\* commit_suggester.handle, lines 910-934: the diff command has returned.
\* A failure and an empty diff end the call; the hint of an empty diff is
\* looked up by language.  With changes the call goes on to line 937.
CommitDiffDone ==
    /\ h_pc = "diffing"
    /\ g_pc = "returned"
    /\ LET code == g_ret[1]
           out == g_ret[2]
           err == g_ret[3]
           info1 == IF h_loc.debug
                    THEN Append(h_loc.debug_info,
                           "git result: code=" \o ToString(code) \o ", output length="
                             \o ToString(Len(out)) \o ", error="
                             \o SubSeq(err, 1, Min(ErrPreviewLength, Len(err))) \o "...")
                    ELSE h_loc.debug_info
           lines == SelectSeq(SplitLines(out), LAMBDA ln : Strip(ln) # "")
           summary == _summarize_status(lines)
           info2 == IF h_loc.debug
                    THEN Append(info1, "change stats: " \o StatsRepr(summary.stats))
                    ELSE info1
       IN  IF code # 0
           THEN /\ ReturnText("git diff failed: "
                      \o (IF Strip(err) # "" THEN Strip(err)
                          ELSE "return code " \o ToString(code))
                      \o "\\n\\nPossible causes:\\n1. malformed range (e.g. HEAD~3..HEAD)"
                      \o "\\n2. a commit reference that does not exist"
                      \o "\\n3. the state of the repository"
                      \o (IF h_loc.debug THEN DebugSuffix(info1) ELSE ""))
                /\ h_loc' = [h_loc EXCEPT !.debug_info = info1]
           ELSE /\ h_loc' = [h_loc EXCEPT !.debug_info = info2,
                                          !.changed = summary.changed,
                                          !.stats = summary.stats]
                /\ IF summary.changed = <<>>
                   THEN IF DictHas(EmptyDiffHint, h_loc.lang)
                        THEN ReturnText("(i) " \o DictGet(EmptyDiffHint, h_loc.lang)
                               \o (IF h_loc.debug THEN DebugSuffix(info2) ELSE ""))
                        ELSE RaiseOut("KeyError", h_loc.lang)
                   ELSE /\ h_pc' = "infer"
                        /\ UNCHANGED h_out
    /\ UNCHANGED <<h_tool, h_args, notHandle>>

\* _get_current_branch, lines 407-422, from what _run_git_safe returned
_get_current_branch(ret) ==
    IF ret[1] # 0 THEN None
    ELSE LET branch == Strip(ret[2])
         IN  IF branch = "" \/ branch = "HEAD" THEN None ELSE PyStr(branch)

\* The alternatives of the group prefix of line 949, in the order written.
BranchPrefixes ==
    <<"feature", "fix", "docs", "refactor", "test", "chore", "perf", "build">>

\* A prefix_map that gives every prefix as its own type.
prefix_map_same(prefix) == prefix

\* prefix_map, lines 955-964
prefix_map(prefix) == IF prefix = "feature" THEN "feat" ELSE prefix

\* re.match of line 949 on the branch name: whether it matches, the group
\* prefix and the group scope, which is the text between a '/' that follows
\* the prefix and the next '/', when that text is not empty.
BranchMatch(branch) ==
    IF \E i \in 1..Len(BranchPrefixes) : StartsAt(branch, 1, BranchPrefixes[i])
    THEN LET i == CHOOSE j \in 1..Len(BranchPrefixes) :
                     /\ StartsAt(branch, 1, BranchPrefixes[j])
                     /\ \A k \in 1..(j - 1) : ~StartsAt(branch, 1, BranchPrefixes[k])
             prefix == BranchPrefixes[i]
             rest == SubSeq(branch, Len(prefix) + 1, Len(branch))
             segment == IF StartsAt(rest, 1, "/")
                        THEN Split(SubSeq(rest, 2, Len(rest)), "/")[1] ELSE ""
         IN  [matched |-> TRUE, prefix |-> prefix,
              scope |-> IF segment # "" THEN PyStr(segment) ELSE None]
    ELSE [matched |-> FALSE, prefix |-> "", scope |-> None]

\* x in c: "yes", "no", or "TypeError" where Python has no such test.
PyIn(x, c) ==
    CASE c.t = "list" -> IF \E i \in 1..Len(c.l) : c.l[i] = x THEN "yes" ELSE "no"
      [] c.t = "dict" -> IF x.t = "str" /\ DictHas(c.d, x.s) THEN "yes" ELSE "no"
      [] c.t = "str" -> IF x.t # "str" THEN "TypeError"
                        ELSE IF x.s = "" \/ Contains(c.s, x.s) THEN "yes" ELSE "no"
      [] OTHER -> "TypeError"

\* c[0]
PyFirst(c) ==
    CASE c.t = "list" /\ c.l # <<>> -> Return(c.l[1])
      [] c.t = "list" /\ c.l = <<>> -> Raise("IndexError", "list index out of range")
      [] c.t = "str" /\ c.s # "" -> Return(PyStr(At(c.s, 1)))
      [] c.t = "str" /\ c.s = "" -> Raise("IndexError", "string index out of range")
      [] c.t = "dict" -> Raise("KeyError", "0")
      [] OTHER -> Raise("TypeError", "'" \o c.t \o "' object is not subscriptable")

\* Lines 971-972 without the assignment: the scope stays as it is.
EnforceScopeEnum_keep(scope_guess, scope_enum) == Return(scope_guess)

\* Lines 971-972: a scope outside scope_enum is dropped.
EnforceScopeEnum(scope_guess, scope_enum) ==
    IF ~Truthy(scope_enum) THEN Return(scope_guess)
    ELSE CASE PyIn(scope_guess, scope_enum) = "yes" -> Return(scope_guess)
           [] PyIn(scope_guess, scope_enum) = "no" -> Return(None)
           [] OTHER -> Raise("TypeError", "argument of type '" \o scope_enum.t
                                             \o "' is not iterable")

\* The rule of lines 978-979 with the test for feat left out.
EnforceType_first(ctype, allowed_types) ==
    CASE PyIn(ctype, allowed_types) = "yes" -> Return(ctype)
      [] PyIn(ctype, allowed_types) = "no" -> PyFirst(allowed_types)
      [] OTHER -> Raise("TypeError", "argument of type '" \o allowed_types.t
                                        \o "' is not iterable")

\* Lines 978-979: a type outside allowed_types gives way to feat, or to the
\* first of allowed_types.
EnforceType(ctype, allowed_types) ==
    CASE PyIn(ctype, allowed_types) = "yes" -> Return(ctype)
      [] PyIn(ctype, allowed_types) = "no" ->
            IF PyIn(PyStr("feat"), allowed_types) = "yes" THEN Return(PyStr("feat"))
            ELSE PyFirst(allowed_types)
      [] OTHER -> Raise("TypeError", "argument of type '" \o allowed_types.t
                                        \o "' is not iterable")

\* commit_suggester.handle, lines 937-940: type and scope are inferred from
\* the changes and the current branch is asked for.
CommitInfer ==
    /\ h_pc = "infer"
    /\ LET inferred == _infer_type_and_scope(h_loc.changed)
       IN  h_loc' = [h_loc EXCEPT !.ctype = PyStr(inferred[1]),
                                  !.scope_guess = inferred[2]]
    /\ GitStartNext(PyArgs(<<"rev-parse", "--abbrev-ref", "HEAD">>), h_loc.repo_check_cwd)
    /\ h_pc' = "branching"
    /\ UNCHANGED <<h_tool, h_args, h_out, regVars, srvVars, fetchVars, loopVars, envVars,
                   callVars>>

\* commit_suggester.handle, lines 940-982: the branch name overrides type
\* and scope, then the rules for scope and type are applied.
CommitRules ==
    /\ h_pc = "branching"
    /\ g_pc = "returned"
    /\ LET branch == _get_current_branch(g_ret)
           info1 == IF h_loc.debug
                    THEN h_loc.debug_info
                           \o <<"current branch: " \o Str(branch),
                                "inferred type: " \o Str(h_loc.ctype) \o ", scope: "
                                  \o Str(h_loc.scope_guess)>>
                    ELSE h_loc.debug_info
           m == IF Truthy(branch) THEN BranchMatch(branch.s)
                ELSE [matched |-> FALSE, prefix |-> "", scope |-> None]
           ctype1 == IF m.matched THEN PyStr(prefix_map(m.prefix)) ELSE h_loc.ctype
           scope1 == IF m.matched /\ Truthy(m.scope) THEN m.scope ELSE h_loc.scope_guess
           scope2 == EnforceScopeEnum(scope1, h_loc.scope_enum)
           scope3 == IF h_loc.require_scope /\ ~Truthy(scope2.value)
                     THEN PyStr("core") ELSE scope2.value
           ctype2 == EnforceType(ctype1, h_loc.allowed_types)
       IN  IF scope2.kind = "raise"
           THEN /\ RaiseOut(scope2.exc, scope2.msg)
                /\ h_loc' = [h_loc EXCEPT !.branch = branch, !.debug_info = info1]
           ELSE IF ctype2.kind = "raise"
           THEN /\ RaiseOut(ctype2.exc, ctype2.msg)
                /\ h_loc' = [h_loc EXCEPT !.branch = branch, !.debug_info = info1,
                                          !.ctype_in = ctype1, !.scope_in = scope1,
                                          !.scope_guess = scope3]
           ELSE /\ h_loc' = [h_loc EXCEPT
                       !.branch = branch,
                       !.ctype_in = ctype1,
                       !.ctype = ctype2.value,
                       !.scope_in = scope1,
                       !.scope_guess = scope3,
                       !.debug_info =
                           IF h_loc.debug
                           THEN Append(info1, "final type: " \o Str(ctype2.value)
                                                \o ", final scope: " \o Str(scope3))
                           ELSE info1]
                /\ h_pc' = "format"
                /\ UNCHANGED h_out
    /\ UNCHANGED <<h_tool, h_args, notHandle>>

(***************************************************************************)
(* commit_suggester.py, lines 553-767: the subject tables, the truncation  *)
(* of a subject and the two renderings of a CommitContext.  An emoji is    *)
(* written as one ASCII character per code point ("~" is the variation     *)
(* selector U+FE0F), a Korean phrase as one letter per syllable, so every  *)
(* string has the length of the one in the source.                         *)
(***************************************************************************)
RECURSIVE Replace(_, _, _)
\* s.replace(old, new), old not empty: the occurrences are taken from left to
\* right and do not overlap; the text put in is not searched again.
Replace(s, old, new) ==
    IF ~Contains(s, old) THEN s
    ELSE LET i == CHOOSE k \in 1..Len(s) :
                      StartsAt(s, k, old) /\ \A j \in 1..(k - 1) : ~StartsAt(s, j, old)
         IN  SubSeq(s, 1, i - 1) \o new
               \o Replace(SubSeq(s, i + Len(old), Len(s)), old, new)

DefaultEmoji == "#"

\* _get_emoji_for_type(ctype): emoji_map.get(ctype, default)
_get_emoji_for_type(ctype) ==
    CASE ctype = "feat" -> "*"
      [] ctype = "fix" -> "%"
      [] ctype = "docs" -> "#"
      [] ctype = "refactor" -> "@~"
      [] ctype = "test" -> "+"
      [] ctype = "build" -> "&~"
      [] ctype = "perf" -> "^"
      [] ctype = "chore" -> "="
      [] ctype = "ci" -> "$"
      [] ctype = "style" -> "!"
      [] OTHER -> DefaultEmoji

\* The types that have an entry in the two tables of _generate_subject_templates.
TemplateTypes == {"feat", "fix", "docs", "refactor", "test", "build", "perf", "chore"}

\* The table of the branch lang == "ko"
TemplatesKo(ctype) ==
    CASE ctype = "feat" -> <<"e cz eo", "cz uc an", "cz mo og">>
      [] ctype = "fix" -> <<"ey cb", "ki si", "lm ewm me">>
      [] ctype = "docs" -> <<"kk huwu", "README me", "cb owu eo">>
      [] ctype = "refactor" -> <<"edsz", "ku oo abk", "be">>
      [] ctype = "test" -> <<"umu eo", "umu ceem qo", "sawi umu mbi">>
      [] ctype = "build" -> <<"su sb huwu", "usf ob", "cih cb">>
      [] ctype = "perf" -> <<"fz ahi", "yeau es", "myqs qo">>
      [] ctype = "chore" -> <<"qmmc zh", "csu cb", "sb huwu">>

\* The table of the else branch
TemplatesEn(ctype) ==
    CASE ctype = "feat" -> <<"add new capability", "introduce feature",
                             "implement initial support">>
      [] ctype = "fix" -> <<"fix issue", "resolve bug", "handle edge case">>
      [] ctype = "docs" -> <<"update documentation", "improve README", "add usage notes">>
      [] ctype = "refactor" -> <<"refactor internal structure", "reorganize code", "cleanup">>
      [] ctype = "test" -> <<"add tests", "improve test coverage", "stabilize flaky tests">>
      [] ctype = "build" -> <<"update build config", "adjust dependencies", "tweak packaging">>
      [] ctype = "perf" -> <<"optimize performance", "reduce overhead", "improve latency">>
      [] ctype = "chore" -> <<"maintenance chores", "minor tweaks", "update config">>

\* The fallback of line 627: "update" for lang == "en", the Korean word for
\* every other lang.
GenericKo == "huwu"

GenericEn == "update"

\* _generate_subject_templates(ctype, lang)
_generate_subject_templates(ctype, lang) ==
    IF ctype \in TemplateTypes
    THEN IF lang = "ko" THEN TemplatesKo(ctype) ELSE TemplatesEn(ctype)
    ELSE IF lang = "en" THEN <<GenericEn>> ELSE <<GenericKo>>

\* The marker of line 652, one character
Ellipsis == "_"

\* text[:n] for n >= 0
Prefix(text, n) == SubSeq(text, 1, Min(n, Len(text)))

\* _truncate_subject(text, max_len)
_truncate_subject(text, max_len) ==
    LET t == Strip(text)
    IN  IF Len(t) <= max_len THEN t
        ELSE Prefix(t, Max(0, max_len - 1)) \o Ellipsis

\* CommitContext(...), lines 203-220
CommitContext(type, scope, subject, body, emoji, branch, stats, files_changed) ==
    [type |-> type, scope |-> scope, subject |-> subject, body |-> body,
     emoji |-> emoji, branch |-> branch, stats |-> stats,
     files_changed |-> files_changed, files_added |-> stats.added,
     files_modified |-> stats.modified, files_deleted |-> stats.deleted]

\* The dict replacements of lines 684-700 in insertion order, each key with
\* its value.
Replacements(context) ==
    << <<"type", context.type>>,
       <<"scope", Str(Or(context.scope, PyStr("")))>>,
       <<"subject", context.subject>>,
       <<"emoji", context.emoji>>,
       <<"branch", Str(Or(context.branch, PyStr("")))>>,
       <<"files_changed", Str(PyInt(context.files_changed))>>,
       <<"files_added", Str(PyInt(context.files_added))>>,
       <<"files_modified", Str(PyInt(context.files_modified))>>,
       <<"files_deleted", Str(PyInt(context.files_deleted))>>,
       <<"body", IF context.body # <<>> THEN Join("\\n", context.body) ELSE "">>,
       <<"scope_with_parens",
         IF Truthy(context.scope) THEN "(" \o Str(context.scope) \o ")" ELSE "">> >>

RECURSIVE ReplaceAll(_, _)
\* The loop of lines 704-706: one replace per key, each on the result of the
\* one before.
ReplaceAll(result, items) ==
    IF items = <<>> THEN result
    ELSE ReplaceAll(Replace(result, "{" \o Head(items)[1] \o "}", Head(items)[2]),
                    Tail(items))

\* _apply_custom_format(format_template, context)
_apply_custom_format(format_template, context) ==
    Replace(Replace(ReplaceAll(format_template, Replacements(context)),
                    "\\\\n", "\\n"),
            "\\\\t", "\\t")

BreakingKo == "BREAKING CHANGE: qo gmgm oi mv"

BreakingEn == "BREAKING CHANGE: behavior changed in a backward-incompatible way"

\* The header of lines 744-745
Header(context) ==
    context.type
      \o (IF Truthy(context.scope) THEN "(" \o Str(context.scope) \o ")" ELSE "")
      \o ": " \o context.subject

\* _format_conventional_message(context, breaking, lang)
_format_conventional_message(context, breaking, lang) ==
    Join("\\n",
         <<Header(context)>>
           \o (IF context.body # <<>> THEN <<"">> \o context.body ELSE <<>>)
           \o (IF breaking
               THEN <<"", IF lang = "ko" THEN BreakingKo ELSE BreakingEn>>
               ELSE <<>>))

\* The printable ASCII characters in the order of their code points (the
\* grave accent left out).
Ascii ==
    " !\"#$%&'()*+,-./0123456789:;<=>?@ABCDEFGHIJKLMNOPQRSTUVWXYZ[\\]^_abcdefghijklmnopqrstuvwxyz{|}~"

\* ord(c), up to a shift
Ord(c) == CHOOSE i \in 1..Len(Ascii) : At(Ascii, i) = c

RECURSIVE StrLess(_, _)
\* a < b of two str
StrLess(a, b) ==
    IF b = "" THEN FALSE
    ELSE IF a = "" THEN TRUE
    ELSE IF At(a, 1) = At(b, 1)
    THEN StrLess(SubSeq(a, 2, Len(a)), SubSeq(b, 2, Len(b)))
    ELSE Ord(At(a, 1)) < Ord(At(b, 1))

RECURSIVE Sorted(_)
\* sorted(S) of a set of str
Sorted(S) ==
    IF S = {} THEN <<>>
    ELSE LET least == CHOOSE x \in S : \A y \in S : x = y \/ StrLess(x, y)
         IN  <<least>> \o Sorted(S \ {least})

\* Lines 984-994: the two body lines, Korean for lang == "ko" and English
\* for every other lang.
BodyLines(lang, stats, changed) ==
    LET first5 == SubSeq(changed, 1, Min(5, Len(changed)))
        paths == Join(", ", Sorted({first5[i][2] : i \in 1..Len(first5)}))
        a == ToString(stats.added)
        m == ToString(stats.modified)
        d == ToString(stats.deleted)
    IN  IF lang = "ko"
        THEN <<"- eo: " \o a \o " ae, cb: " \o m \o " ae, di: " \o d \o " ae",
               "- my mv vg: " \o paths>>
        ELSE <<"- added: " \o a \o " files, modified: " \o m \o " files, deleted: "
                 \o d \o " files",
               "- key paths: " \o paths>>

\* max(1, min(10, suggestions)) of line 998
SuggestionLimit(suggestions) ==
    CASE suggestions.t = "int" -> Return(Max(1, Min(10, suggestions.n)))
      [] suggestions.t = "bool" -> Return(1)
      [] OTHER -> Raise("TypeError", "'<' not supported between instances of '"
                                       \o suggestions.t \o "' and 'int'")

\* Lines 1004-1008: the template with the emoji before it, if there is one.
PrefixedSubject(emoji, template) ==
    IF emoji # "" THEN Strip(emoji \o " " \o template) ELSE template

\* f"[{i+1}]\\n{m}" for the messages from the i-th on
RECURSIVE Numbered(_, _)
Numbered(messages, i) ==
    IF i > Len(messages) THEN <<>>
    ELSE <<"[" \o ToString(i) \o "]\\n" \o messages[i]>> \o Numbered(messages, i + 1)

\* commit_suggester.handle, lines 983-1051: the body, the candidates and the
\* text returned.
CommitFormat ==
    /\ h_pc = "format"
    /\ h_tool = "commit_suggester"
    /\ LET ctype == Str(h_loc.ctype)
           body_lines == BodyLines(h_loc.lang, h_loc.stats, h_loc.changed)
           limit == SuggestionLimit(h_loc.suggestions)
           templates == _generate_subject_templates(ctype, h_loc.lang)
           subject_templates == Prefix(templates, limit.value)
           emoji == IF h_loc.allow_emoji THEN _get_emoji_for_type(ctype) ELSE ""
           Subject(template) ==
               _truncate_subject(PrefixedSubject(emoji, template), h_loc.subject_max)
           Context(template) ==
               CommitContext(ctype, h_loc.scope_guess, Subject(template), body_lines,
                             _get_emoji_for_type(ctype), h_loc.branch, h_loc.stats,
                             Len(h_loc.changed))
           Message(template) ==
               IF Truthy(h_loc.custom_format)
               THEN _apply_custom_format(h_loc.custom_format.s, Context(template))
               ELSE _format_conventional_message(Context(template), h_loc.breaking,
                                                 h_loc.lang)
           messages == [i \in 1..Len(subject_templates) |->
                          Message(subject_templates[i])]
           result_text ==
               (IF h_loc.debug
                THEN "[debug info]\\n\\n" \o Join("\\n", h_loc.debug_info)
                       \o "\\n\\n---\\n\\n"
                ELSE "")
                 \o (IF Len(messages) = 1 THEN messages[1]
                     ELSE Join("\\n\\n---\\n\\n", Numbered(messages, 1)))
       IN  IF limit.kind = "raise"
           THEN /\ RaiseOut(limit.exc, limit.msg)
                /\ UNCHANGED h_loc
           ELSE IF Truthy(h_loc.custom_format) /\ h_loc.custom_format.t # "str"
           THEN /\ RaiseOut("AttributeError",
                            "'" \o h_loc.custom_format.t
                              \o "' object has no attribute 'replace'")
                /\ h_loc' = [h_loc EXCEPT !.subject_templates = subject_templates]
           ELSE /\ ReturnText(result_text)
                /\ h_loc' = [h_loc EXCEPT
                       !.subject_templates = subject_templates,
                       !.subjects = [i \in 1..Len(subject_templates) |->
                                       Subject(subject_templates[i])],
                       !.messages = messages]
    /\ UNCHANGED <<h_tool, h_args, notHandle>>

(***************************************************************************)
(* SpecHandle: one call of a tool's handle with an arguments dict that is  *)
(* well-formed or holds a value of the wrong type, a number out of range,  *)
(* a value outside the enumeration, or lacks a required key.  The          *)
(* transcript service, the file system, git and its subprocess behave as   *)
(* in SpecFetch and SpecGit.                                               *)
(***************************************************************************)
GoodUrl == PyStr("https://youtu.be/dQw4w9WgXcQ")

ArgumentDicts ==
    {<<>>,
     <<  <<"url", GoodUrl>>  >>,
     <<  <<"url", PyStr("  https://www.youtube.com/watch?v=dQw4w9WgXcQ ")>>,
         <<"language", PyStr(" KO ")>>, <<"max_summary_length", PyInt(50)>>  >>,
     <<  <<"url", PyStr("not a url")>>  >>,
     <<  <<"url", PyInt(12345)>>  >>,
     <<  <<"url", PyList(<<>>)>>  >>,
     <<  <<"url", GoodUrl>>, <<"language", PyInt(5)>>,
         <<"max_summary_length", PyStr("long")>>  >>,
     <<  <<"url", GoodUrl>>, <<"language", PyStr("xx")>>,
         <<"max_summary_length", PyInt(99999)>>  >>,
     <<  <<"mode", PyStr("Working")>>, <<"language", PyStr("EN")>>,
         <<"debug", PyBool(TRUE)>>  >>,
     <<  <<"mode", PyStr("range")>>  >>,
     <<  <<"mode", PyStr("range")>>, <<"range", PyStr("HEAD~3..HEAD")>>  >>,
     <<  <<"mode", PyStr("range")>>, <<"range", PyInt(3)>>  >>,
     <<  <<"mode", PyStr("bogus")>>  >>,
     <<  <<"mode", PyStr("bogus")>>, <<"debug", PyBool(TRUE)>>  >>,
     <<  <<"mode", PyInt(1)>>  >>,
     <<  <<"language", PyInt(7)>>  >>,
     <<  <<"language", PyStr("fr")>>  >>,
     <<  <<"path", PyInt(3)>>  >>,
     <<  <<"path", PyStr("sub")>>, <<"debug", PyBool(TRUE)>>  >>,
     <<  <<"rules", PyStr("strict")>>  >>,
     <<  <<"rules", PyDict(<<  <<"subject_max", PyStr("long")>>  >>)>>  >>,
     <<  <<"mode", PyStr("working")>>,
         <<"rules", PyDict(<<  <<"types", PyList(<<PyStr("fix"), PyStr("docs")>>)>>  >>)>>  >>,
     <<  <<"rules", PyDict(<<  <<"types", PyList(<<PyStr("fix"), PyStr("feat")>>)>>,
                               <<"scope_enum", PyList(<<PyStr("login")>>)>>  >>)>>  >>,
     <<  <<"rules", PyDict(<<  <<"types", PyStr("fix")>>  >>)>>  >>,
     <<  <<"rules", PyDict(<<  <<"scope_enum", PyList(<<PyStr("api")>>)>>  >>)>>  >>,
     <<  <<"rules", PyDict(<<  <<"scope_enum", PyList(<<PyStr("api"), PyStr("login")>>)>>,
                               <<"require_scope", PyBool(TRUE)>>  >>)>>  >>,
     <<  <<"rules", PyDict(<<  <<"subject_max", PyStr("50")>>,
                               <<"types", PyList(<<PyStr("feat")>>)>>,
                               <<"require_scope", PyBool(TRUE)>>  >>)>>  >>,
     <<  <<"language", PyStr("en")>>, <<"suggestions", PyInt(1)>>,
         <<"rules", PyDict(<<  <<"allow_emoji", PyBool(TRUE)>>,
                               <<"subject_max", PyInt(10)>>  >>)>>  >>,
     <<  <<"language", PyStr("fr")>>, <<"suggestions", PyInt(99)>>,
         <<"rules", PyDict(<<  <<"types", PyList(<<PyStr("wip")>>)>>  >>)>>  >>,
     <<  <<"language", PyStr("en")>>, <<"suggestions", PyInt(-3)>>,
         <<"breaking", PyBool(TRUE)>>,
         <<"rules", PyDict(<<  <<"types", PyList(<<PyStr("wip")>>)>>  >>)>>  >>,
     <<  <<"suggestions", PyStr("3")>>  >>,
     <<  <<"format", PyStr("{type}({scope}): {subject}")>>, <<"suggestions", PyInt(2)>>,
         <<"rules", PyDict(<<  <<"require_scope", PyBool(TRUE)>>  >>)>>  >>,
     <<  <<"format", PyInt(5)>>  >>,
     <<  <<"rules", PyDict(<<  <<"subject_max", PyInt(-1)>>  >>)>>  >>}

HandleCall ==
    /\ \E i \in 1..Len(ALL), arguments \in ArgumentDicts : HandleStart(ALL[i], arguments)
    /\ UNCHANGED notHandle

InitHandle ==
    /\ RegInit /\ SrvInit /\ FetchInit /\ GitInit /\ HandleInit /\ LoopInit /\ CallInit
    /\ \E probe \in GitProbes :
          git_env = [now |-> probe, ok_seen |-> _check_git_availability(probe)[1]]

NextHandle ==
    \/ HandleCall
    \/ EnvChanges
    \/ PingHandle
    \/ SummarizeParse
    \/ SummarizeFetched
    \/ StatsParse
    \/ StatsFetched
    \/ CommitParse
    \/ CommitCheckGit
    \/ CommitCheckRepo
    \/ CommitDiff
    \/ CommitDiffDone
    \/ CommitInfer
    \/ CommitRules
    \/ CommitFormat
    \/ FetchLanguage
    \/ FetchLanguageAuto
    \/ FetchCandidate
    \/ FetchDefault
    \/ FetchReturn
    \/ FetchExcept
    \/ GitAvailability
    \/ GitRepository
    \/ GitSpawn
    \/ ProcExits
    \/ ProcKilled
    \/ TransportCloses
    \/ GitCommunicated
    \/ GitTimeout
    \/ GitKill
    \/ GitWaited

SpecHandle == InitHandle /\ [][NextHandle]_vars

(***************************************************************************)
(* SpecLoop: request tasks on the one event loop of the server.  Each      *)
(* call_tool request runs the handler of its tool as a coroutine.  The     *)
(* loop runs one task at a time, and a task keeps the loop until it        *)
(* suspends at an await of something pending, or returns.  The external    *)
(* operations of a handler, in the order its code makes them:              *)
(*   fetch           YouTubeTranscriptApi().fetch(...), a plain call       *)
(*                   (youtube.py lines 164, 169, 187, 196);                *)
(*   git_version     subprocess.run([git, "--version"], timeout=5), a      *)
(*                   plain call (commit_suggester.py line 250);            *)
(*   git_subprocess  await create_subprocess_exec and await                *)
(*                   wait_for(proc.communicate()) (lines 356-366).         *)
(***************************************************************************)
Repeat(x, n) == [i \in 1..n |-> x]

\* The external operations handle of a tool makes when no step ends it
\* early: every language candidate and the default fetch; the git probe of
\* handle and, for the diff and for the branch, the probe and the
\* subprocess of _run_git_safe.
Operations(tool) ==
    CASE tool \in {"summarize_youtube", "transcript_stats"} ->
           Repeat("fetch", Len(language_candidates) + 1)
      [] tool = "commit_suggester" ->
           <<"git_version", "git_version", "git_subprocess", "git_version", "git_subprocess">>
      [] OTHER -> <<>>

\* The operations the coroutine awaits; the others are plain calls that
\* return only when the operation is over.
Awaited == {"git_subprocess"}

\* core.py line 80: the loop starts running the handler of a new request.
TaskCall(t) ==
    /\ loop = 0
    /\ t_pc[t] = "new"
    /\ \E i \in 1..Len(ALL) : t_tool' = [t_tool EXCEPT ![t] = ALL[i]]
    /\ t_pc' = [t_pc EXCEPT ![t] = "running"]
    /\ loop' = t
    /\ UNCHANGED <<t_io, t_n, notLoop>>

\* The running handler starts its next external operation.  An awaited one
\* suspends the task and frees the loop; a plain call keeps the loop.
TaskBegin(t) ==
    /\ loop = t
    /\ t_pc[t] = "running"
    /\ t_io[t] = "none"
    /\ t_n[t] < Len(Operations(t_tool[t]))
    /\ LET op == Operations(t_tool[t])[t_n[t] + 1]
       IN  /\ t_io' = [t_io EXCEPT ![t] = op]
           /\ IF op \in Awaited
              THEN /\ t_pc' = [t_pc EXCEPT ![t] = "suspended"]
                   /\ loop' = 0
              ELSE UNCHANGED <<t_pc, loop>>
    /\ UNCHANGED <<t_tool, t_n, notLoop>>

\* The external operation of a task is over.  A suspended task becomes
\* ready to be resumed; a plain call returns into the running handler.
TaskEnd(t) ==
    /\ t_io[t] # "none"
    /\ t_io' = [t_io EXCEPT ![t] = "none"]
    /\ t_n' = [t_n EXCEPT ![t] = @ + 1]
    /\ t_pc' = [t_pc EXCEPT ![t] = IF @ = "suspended" THEN "ready" ELSE @]
    /\ UNCHANGED <<loop, t_tool, notLoop>>

\* The idle loop resumes a task whose awaited operation is over.
TaskResume(t) ==
    /\ loop = 0
    /\ t_pc[t] = "ready"
    /\ t_pc' = [t_pc EXCEPT ![t] = "running"]
    /\ loop' = t
    /\ UNCHANGED <<t_tool, t_io, t_n, notLoop>>

\* The running handler returns or raises, after any number of its
\* operations; core.py lines 86-90.
TaskReturn(t) ==
    /\ loop = t
    /\ t_pc[t] = "running"
    /\ t_io[t] = "none"
    /\ t_pc' = [t_pc EXCEPT ![t] = "done"]
    /\ loop' = 0
    /\ UNCHANGED <<t_tool, t_io, t_n, notLoop>>

InitLoop == RegInit /\ SrvInit /\ FetchInit /\ GitInit /\ HandleInit /\ LoopInit /\ EnvInit
    /\ CallInit

NextLoop ==
    \/ \E t \in Tasks : TaskCall(t)
    \/ \E t \in Tasks : TaskBegin(t)
    \/ \E t \in Tasks : TaskEnd(t)
    \/ \E t \in Tasks : TaskResume(t)
    \/ \E t \in Tasks : TaskReturn(t)

SpecLoop == InitLoop /\ [][NextLoop]_vars

(***************************************************************************)
(* SpecText: one call of summarize_sections(text, max_length).  The texts  *)
(* are runs of one passage: sentences that split, a run of letters with no *)
(* place to split, sentences parted by several blanks, words with no       *)
(* sentence end.  The lengths lie below, inside and above the range        *)
(* 200..5000 of the tool, and at the lengths of the texts.                 *)
(***************************************************************************)
MaxPassages == 30

RECURSIVE Times(_, _)
\* s * n
Times(s, n) == IF n <= 0 THEN "" ELSE s \o Times(s, n - 1)

Passages == {"Aaaaaaaa. ", "xxxxxxxxxx", "Ab cd? Ef!  \n", "no stop here "}

Texts == {Times(p, n) : p \in Passages, n \in 0..MaxPassages}

MaxLengths == {-1, 0, 1, 10, 25, 50, 100, 130, 199, 200, 201, 250, 300, 1000, 5000}

\* Lines 32-33: the text is within max_length and is returned.
SummarizeIdentity ==
    /\ ss_pc = "called"
    /\ Len(ss_text) <= ss_max_length
    /\ ss_ret' = summarize_sections(ss_text, ss_max_length)
    /\ ss_pc' = "returned"
    /\ UNCHANGED <<ss_text, ss_max_length, ss_loc, videoIdVars, inferVars, truncateVars,
                   renderVars, statusVars, notCall>>

\* Lines 36-82: the text is longer; the excerpts are taken and the composite
\* is returned.
SummarizeSectioned ==
    /\ ss_pc = "called"
    /\ Len(ss_text) > ss_max_length
    /\ ss_loc' = Excerpts(ss_text, ss_max_length)
    /\ ss_ret' = summarize_sections(ss_text, ss_max_length)
    /\ ss_pc' = "returned"
    /\ UNCHANGED <<ss_text, ss_max_length, videoIdVars, inferVars, truncateVars,
                   renderVars, statusVars, notCall>>

InitText ==
    /\ RegInit /\ SrvInit /\ FetchInit /\ GitInit /\ HandleInit /\ LoopInit /\ EnvInit
    /\ \E text \in Texts, max_length \in MaxLengths :
          /\ ss_pc = "called" /\ ss_text = text /\ ss_max_length = max_length
    /\ ss_loc = NoExcerpts /\ ss_ret = ""
    /\ VideoIdIdle /\ InferIdle /\ TruncateIdle /\ RenderIdle /\ StatusIdle

NextText == SummarizeIdentity \/ SummarizeSectioned

SpecText == InitText /\ [][NextText]_vars

(***************************************************************************)
(* SpecVideoId: one call of extract_video_id(url).  The callers pass a     *)
(* string (summarize_youtube.py line 91, transcript_stats.py line 59); the *)
(* function itself also takes None.  The urls put an id, or what is not    *)
(* one, behind the prefixes the patterns look for and behind others.       *)
(***************************************************************************)
UrlPrefixes ==
    {"https://www.youtube.com/watch?v=", "https://youtu.be/",
     "https://www.youtube.com/embed/", "https://www.youtube.com/watch?list=PL1&v=",
     "youtu\\.be/", "v=", "", "not a url ", "https://x.io/AAAAAAAAAAA/embed/"}

UrlIds == {"dQw4w9WgXcQ", "a_b-c_d-e_f9", "dQw4w9WgXc!", "abc", ""}

UrlSuffixes == {"", "&t=10s", "/live"}

Urls ==
    {None, PyStr("not a url")}
      \cup {PyStr(a \o b \o c) : a \in UrlPrefixes, b \in UrlIds, c \in UrlSuffixes}

\* Lines 39-51: the patterns are tried in order on url or "".
ExtractVideoId ==
    /\ ev_pc = "called"
    /\ ev_ret' = extract_video_id(ev_url)
    /\ ev_pc' = "returned"
    /\ UNCHANGED <<ev_url, textVars, inferVars, truncateVars, renderVars, statusVars,
                   notCall>>

InitVideoId ==
    /\ RegInit /\ SrvInit /\ FetchInit /\ GitInit /\ HandleInit /\ LoopInit /\ EnvInit
    /\ TextIdle
    /\ \E url \in Urls : ev_pc = "called" /\ ev_url = url
    /\ ev_ret = Pending
    /\ InferIdle /\ TruncateIdle /\ RenderIdle /\ StatusIdle

NextVideoId == ExtractVideoId

SpecVideoId == InitVideoId /\ [][NextVideoId]_vars

(***************************************************************************)
(* SpecInfer: one call of _infer_type_and_scope(changed) with the change   *)
(* lists _summarize_status can give: up to MaxChanged entries (status,     *)
(* path), the paths with and without directories, in upper and lower case, *)
(* with the keywords of one group, of two, and of none.                    *)
(***************************************************************************)
MaxChanged == 2

ChangedEntries ==
    {<<"M", "README.md">>, <<"A", "src/app/main.py">>, <<"M", "tests/test_x.py">>,
     <<"M", "docs/BugFix.md">>, <<"A", "./run.sh">>, <<"D", "../up/x.py">>,
     <<"M", "package.json">>, <<"A", "build/Dockerfile">>, <<"M", "lib/perf_test.py">>,
     <<"R", "core/Refactor_db.py">>, <<"A", "bench/optimize.py">>, <<"M", "notes.txt">>,
     <<"A", "lock">>, <<"A", "notes.md">>, <<"M", "requirements.txt">>,
     <<"M", "Cargo.lock">>}

RECURSIVE SeqsUpTo(_, _)
\* The sequences over S of at most n elements.
SeqsUpTo(S, n) ==
    IF n = 0 THEN {<<>>}
    ELSE LET shorter == SeqsUpTo(S, n - 1)
         IN  shorter \cup {Append(q, x) : q \in shorter, x \in S}

ChangeLists == SeqsUpTo(ChangedEntries, MaxChanged)

\* Lines 505-550
InferTypeAndScope ==
    /\ it_pc = "called"
    /\ it_ret' = _infer_type_and_scope(it_changed)
    /\ it_pc' = "returned"
    /\ UNCHANGED <<it_changed, textVars, videoIdVars, truncateVars, renderVars,
                   statusVars, notCall>>

InitInfer ==
    /\ RegInit /\ SrvInit /\ FetchInit /\ GitInit /\ HandleInit /\ LoopInit /\ EnvInit
    /\ TextIdle /\ VideoIdIdle
    /\ \E changed \in ChangeLists : it_pc = "called" /\ it_changed = changed
    /\ it_ret = <<"", None>>
    /\ TruncateIdle /\ RenderIdle /\ StatusIdle

NextInfer == InferTypeAndScope

SpecInfer == InitInfer /\ [][NextInfer]_vars

(***************************************************************************)
(* SpecTruncate: one call of _truncate_subject(text, max_len) as line 1010 *)
(* makes it: the text is a template of the tables, alone or behind the     *)
(* emoji of its type, or a long subject; max_len is what int() of line 859 *)
(* can give, a negative number and zero (of the string "0") included.      *)
(***************************************************************************)
KnownTypes == TemplateTypes \cup {"ci", "style", "wip"}

Langs == {"ko", "en"}

LongSubjectLength == 100

Subjects ==
    UNION {{PrefixedSubject(emoji, _generate_subject_templates(ctype, lang)[i]) :
              emoji \in {"", _get_emoji_for_type(ctype)},
              i \in 1..Len(_generate_subject_templates(ctype, lang))} :
           ctype \in KnownTypes, lang \in Langs}
      \cup {Times("a", LongSubjectLength)}

SubjectMaxes == {-1, 0, 1, 2, 5, 10, 20, 50, 72}

TruncateSubject ==
    /\ tr_pc = "called"
    /\ tr_ret' = _truncate_subject(tr_text, tr_max_len)
    /\ tr_pc' = "returned"
    /\ UNCHANGED <<tr_text, tr_max_len, textVars, videoIdVars, inferVars, renderVars,
                   statusVars, notCall>>

InitTruncate ==
    /\ RegInit /\ SrvInit /\ FetchInit /\ GitInit /\ HandleInit /\ LoopInit /\ EnvInit
    /\ TextIdle /\ VideoIdIdle /\ InferIdle
    /\ \E text \in Subjects, max_len \in SubjectMaxes :
          tr_pc = "called" /\ tr_text = text /\ tr_max_len = max_len
    /\ tr_ret = ""
    /\ RenderIdle /\ StatusIdle

NextTruncate == TruncateSubject

SpecTruncate == InitTruncate /\ [][NextTruncate]_vars

(***************************************************************************)
(* SpecRender: one CommitContext rendered both ways, as lines 1028-1031    *)
(* do: by _format_conventional_message and by _apply_custom_format with a  *)
(* template.  The scope is None, empty, a directory or branch segment; a   *)
(* segment may hold any character but the slash, braces included.          *)
(***************************************************************************)
HeaderTemplate == "{type}({scope}): {subject}"

Contexts ==
    {CommitContext(ctype, scope, subject, body, _get_emoji_for_type(ctype), None,
                   [added |-> 1, modified |-> 0, deleted |-> 0, renamed |-> 0], 1) :
       ctype \in {"feat", "fix"},
       scope \in {None, PyStr(""), PyStr("core"), PyStr("login"), PyStr("{subject}")},
       subject \in {"add x", "fix issue", "* add new capability"},
       body \in {<<>>,
                 BodyLines("en", [added |-> 1, modified |-> 0, deleted |-> 0,
                                  renamed |-> 0],
                           << <<"A", "src/app/main.py">> >>)}}

Render ==
    /\ cf_pc = "called"
    /\ cf_ret' = [conventional |->
                      _format_conventional_message(cf_in.context, cf_in.breaking,
                                                   cf_in.lang),
                  custom |-> _apply_custom_format(cf_in.format, cf_in.context)]
    /\ cf_pc' = "returned"
    /\ UNCHANGED <<cf_in, textVars, videoIdVars, inferVars, truncateVars, statusVars,
                   notCall>>

InitRender ==
    /\ RegInit /\ SrvInit /\ FetchInit /\ GitInit /\ HandleInit /\ LoopInit /\ EnvInit
    /\ TextIdle /\ VideoIdIdle /\ InferIdle /\ TruncateIdle
    /\ \E context \in Contexts, breaking \in BOOLEAN, lang \in Langs,
          format \in {HeaderTemplate, "{type}{scope_with_parens}: {subject}"} :
          /\ cf_pc = "called"
          /\ cf_in = [context |-> context, breaking |-> breaking, lang |-> lang,
                      format |-> format]
    /\ cf_ret = [conventional |-> "", custom |-> ""]
    /\ StatusIdle

NextRender == Render

SpecRender == InitRender /\ [][NextRender]_vars

(***************************************************************************)
(* SpecStatus: one call of _summarize_status(lines) with up to MaxLines    *)
(* lines of git diff --name-status, well-formed or not.                    *)
(***************************************************************************)
MaxLines == 3

StatusLines ==
    {"A\tsrc/a.py", "M\tb.py", "D\tc.py", "R100\told.py\tnew.py", "T\tq.py",
     " M\tpad.py ", "", "  ", "nofields", "A\t"}

SummarizeStatus ==
    /\ su_pc = "called"
    /\ su_ret' = _summarize_status(su_lines)
    /\ su_pc' = "returned"
    /\ UNCHANGED <<su_lines, textVars, videoIdVars, inferVars, truncateVars, renderVars,
                   notCall>>

InitStatus ==
    /\ RegInit /\ SrvInit /\ FetchInit /\ GitInit /\ HandleInit /\ LoopInit /\ EnvInit
    /\ TextIdle /\ VideoIdIdle /\ InferIdle /\ TruncateIdle /\ RenderIdle
    /\ \E lines \in SeqsUpTo(StatusLines, MaxLines) :
          su_pc = "called" /\ su_lines = lines
    /\ su_ret = [changed |-> <<>>, stats |-> NoStats]

NextStatus == SummarizeStatus

SpecStatus == InitStatus /\ [][NextStatus]_vars

(***************************************************************************)
(* Claims about the registry and the dispatcher.                           *)
(***************************************************************************)
RECURSIVE RegisteredTools(_)
\* The descriptors of the register calls of `log` that returned, in order.
RegisteredTools(log) ==
    IF log = <<>> THEN <<>>
    ELSE LET rest == RegisteredTools(SubSeq(log, 1, Len(log) - 1))
             last == log[Len(log)]
         IN  IF last.out.kind = "return" THEN Append(rest, last.tool) ELSE rest

StartupTools == [i \in 1..Len(ALL) |-> tool_spec(ALL[i])]

\* C1: a register call raises ValueError exactly when an earlier register
\* call used the same tool name; `tools` is the descriptors of the calls
\* that succeeded, in call order; so N calls with pairwise distinct names
\* all succeed and `tools` is exactly those N descriptors in that order.
C1_RegisterUniqueInOrder ==
    /\ \A i \in 1..Len(reg_log) :
          LET dup == \E j \in 1..(i - 1) : reg_log[j].tool.name = reg_log[i].tool.name
          IN  IF dup
              THEN /\ reg_log[i].out.kind = "raise"
                   /\ reg_log[i].out.exc = "ValueError"
              ELSE reg_log[i].out.kind = "return"
    /\ tools = RegisteredTools(reg_log)
    /\ (\A i, j \in 1..Len(reg_log) :
            i # j => reg_log[i].tool.name # reg_log[j].tool.name)
        => tools = [i \in 1..Len(reg_log) |-> reg_log[i].tool]

\* The startup sequence registered in order, and a fifth register call
\* (a duplicate name) rejected.
C1_Witness ==
    /\ Len(reg_log) = Len(ALL) + 1
    /\ \A i \in 1..Len(ALL) : reg_log[i].tool = tool_spec(ALL[i])
    /\ reg_log[Len(ALL) + 1].out.kind = "raise"
    /\ tools = StartupTools

Registered(name) == DictHas(_handlers, name)

\* C2: a call_tool with a registered name that has got as far as the await
\* has invoked exactly one handler, the one registered under that name, with
\* the call's arguments; a finished call has the handler's own outcome: the
\* returned result, or the raised exception.
C2_HandlerInvokedOnce ==
    \A r \in Slots :
        (req[r].pc # "idle" /\ Registered(req[r].name)) =>
            /\ req[r].invoked = <<[handler |-> DictGet(_handlers, req[r].name),
                                   arguments |-> req[r].arguments]>>
            /\ req[r].pc \in {"returned", "raised"} =>
                  /\ req[r].out = req[r].hout
                  /\ (req[r].pc = "returned") = (req[r].hout.kind = "return")

\* A call whose handler raised, finished.
C2_Witness ==
    \E r \in Slots :
        /\ req[r].pc = "raised"
        /\ Registered(req[r].name)
        /\ req[r].hout.kind = "raise"
        /\ Len(req[r].invoked) = 1

\* C3: a call_tool with an unregistered name ends raised with get_handler's
\* ValueError ("Unknown tool") and has invoked no handler; get_handler of a
\* registered name returns the handler registered together with that name.
C3_UnknownToolFails ==
    /\ \A r \in Slots :
          (req[r].pc # "idle" /\ ~Registered(req[r].name)) =>
              /\ req[r].pc = "raised"
              /\ req[r].out = Raise("ValueError", "Unknown tool: " \o req[r].name)
              /\ req[r].invoked = <<>>
    /\ \A i \in 1..Len(reg_log) :
          reg_log[i].out.kind = "return" =>
              get_handler(reg_log[i].tool.name) = Return(reg_log[i].handler)
    /\ \A n \in CallNames :
          (~\E i \in 1..Len(reg_log) : reg_log[i].tool.name = n) =>
              get_handler(n).kind = "raise"

C3_Witness ==
    /\ srv_pc = "serving"
    /\ \E r \in Slots : req[r].pc = "raised" /\ req[r].name = "no_such_tool"

\* C4: once startup has finished, no step changes _tools or _handlers, and
\* every list_tools returns the descriptors in startup order.
C4_RegistryFrozenAfterStartup ==
    /\ [][srv_pc = "serving" => (_tools' = _tools /\ _handlers' = _handlers)]_vars
    /\ [](srv_pc = "serving" =>
            /\ DictValues(_tools) = StartupTools
            /\ DictValues(_handlers) = [i \in 1..Len(ALL) |-> handle(ALL[i])]
            /\ DictKeys(_tools) = ALL /\ DictKeys(_handlers) = ALL)
    /\ [](listings \subseteq {StartupTools})

\* list_tools answered while one call has failed and another has returned.
C4_Witness ==
    /\ listings # {}
    /\ \E r1, r2 \in Slots :
          /\ req[r1].pc = "raised" /\ req[r1].name = "no_such_tool"
          /\ req[r2].pc = "returned"

(***************************************************************************)
(* Claims about fetch_transcript_flexible.                                 *)
(***************************************************************************)
Succeeded(c) == ~c.outcome.raised

YieldsEntries(c) == ~c.outcome.raised /\ c.outcome.data # <<>>

\* C6: without a language the service is tried with the six candidates in
\* order and then once by default; no call follows a call that succeeded;
\* the label returned is the label of the candidate that succeeded.
C6_CandidatesInOrderUntilFirstSuccess ==
    (f_pc # "idle" /\ ~Truthy(f_language)) =>
        /\ Len(f_calls) <= Len(language_candidates) + 1
        /\ \A k \in 1..Len(f_calls) :
              IF k <= Len(language_candidates)
              THEN /\ f_calls[k].languages = language_candidates[k].langs
                   /\ ~f_calls[k].by_default
              ELSE f_calls[k].by_default
        /\ \A k \in 1..(Len(f_calls) - 1) : ~Succeeded(f_calls[k])
        /\ \A k \in 1..Len(f_calls) :
              (f_pc = "done" /\ Succeeded(f_calls[k]) /\ ~f_calls[k].by_default) =>
                  f_ret.value[2] = PyStr(language_candidates[k].name)

C8_LanguageFallsBackToCandidates ==
    (/\ f_pc = "done"
     /\ Truthy(f_language)
     /\ Len(f_calls) >= 2
     /\ ~Succeeded(f_calls[1]) /\ ~Succeeded(f_calls[2]))
        => \E k \in 1..Len(f_calls) : f_calls[k].by_default

\* The label the code has set after the calls of the log: that of the last
\* call that succeeded, or None.
LabelOfCall(k) ==
    IF Truthy(f_language)
    THEN IF k = 1 THEN f_language ELSE PyStr(Str(f_language) \o " (auto-generated)")
    ELSE IF f_calls[k].by_default THEN PyStr("default language")
         ELSE PyStr(language_candidates[k].name)

LastLabel ==
    LET ok == {k \in 1..Len(f_calls) : Succeeded(f_calls[k])}
    IN  IF ok = {} THEN None
        ELSE LabelOfCall(CHOOSE k \in ok : \A j \in ok : j <= k)

\* C9: a finished call has returned, never raised; when no service call
\* yielded entries the result is (no entries, the label last set or None,
\* the unknown duration, the empty text).
C9_NeverRaisesEmptyResult ==
    f_pc = "done" =>
        /\ f_ret.kind = "return"
        /\ (\A k \in 1..Len(f_calls) : ~YieldsEntries(f_calls[k])) =>
              f_ret = Return(<<<<>>, LastLabel, UnknownDuration, "">>)

\* Every candidate failed and the default fetch failed too.
C9_Witness ==
    /\ f_pc = "done"
    /\ Len(f_calls) = Len(language_candidates) + 1
    /\ f_calls[Len(f_calls)].by_default
    /\ \A k \in 1..Len(f_calls) : ~Succeeded(f_calls[k])

(***************************************************************************)
(* Claims about _run_git_safe.                                             *)
(***************************************************************************)
\* C10: whenever wait_for times out on the subprocess, the call returns
\* code 124 with the timeout message, after kill() was called and with the
\* subprocess terminated; the call never returns with a subprocess it started
\* still running; a call that is waiting for its subprocess returns
\* eventually.
C10_TimeoutKillsAndReaps ==
    /\ [](g_pc = "returned" /\ g_proc # "none" => g_proc \in {"exited", "closed"})
    /\ []((g_pc = "returned" /\ g_timeout_saw = "running") =>
            /\ g_kill_called
            /\ g_proc \in {"exited", "closed"}
            /\ g_ret = <<TimeoutCode, "",
                         "git " \o Join(" ", StrArgs(g_args)) \o " timed out (10s)">>)
    /\ (g_pc \in {"communicate", "timeout", "wait"}) ~> (g_pc = "returned")

(***************************************************************************)
(* Claims about the tool handlers.                                         *)
(***************************************************************************)
\* C5: whatever the arguments dict holds, a call of handle that ends has
\* returned a list of text contents; no exception leaves the handler.
C5_HandlersReturnTextNeverRaise ==
    h_pc = "done" =>
        /\ h_out.kind = "return"
        /\ h_out.value # <<>>
        /\ \A i \in 1..Len(h_out.value) : h_out.value[i].type = "text"

\* The text of the one content part a handler returned.
OutText == h_out.value[1].text

\* git has been unusable for as long as the server has run.
GitNeverUsable == ~git_env.ok_seen

\* The call ended at the path validation of lines 820-838.
PathRefused ==
    /\ h_out.kind = "return"
    /\ \/ StartsAt(OutText, 1, "'path' must be a string")
       \/ StartsAt(OutText, 1, "The given path does not exist")

\* C12: with git missing or unusable, a call of commit_suggester.handle whose
\* arguments pass the path validation ends with a returned text that holds
\* the git problem and the steps to fix it; it does not raise.
C12_GitUnusableReturnsGuidance ==
    (h_tool = "commit_suggester" /\ h_pc = "done" /\ GitNeverUsable /\ ~PathRefused) =>
        /\ h_out.kind = "return"
        /\ StartsAt(OutText, 1, "Git setup problem")
        /\ \E probe \in GitProbes :
              /\ ~_check_git_availability(probe)[1]
              /\ Contains(OutText, _check_git_availability(probe)[2])
        /\ Contains(OutText, "How to fix:")

\* The call ended after a git diff that succeeded and listed no change
\* (lines 913-926).
EmptyDiffEnded ==
    /\ h_tool = "commit_suggester"
    /\ h_pc = "done"
    /\ g_pc = "returned"
    /\ Len(g_args) > 0 /\ g_args[1] = PyStr("diff")
    /\ g_ret[1] = 0
    /\ _summarize_status(SelectSeq(SplitLines(g_ret[2]),
                                   LAMBDA ln : Strip(ln) # "")).changed = <<>>

\* C13: a call of commit_suggester.handle whose git diff succeeds with an
\* empty change list returns the informational 'no changes' text, whatever
\* the other arguments are; it does not raise.
C13_EmptyDiffReturnsInfo ==
    EmptyDiffEnded =>
        /\ h_out.kind = "return"
        /\ StartsAt(OutText, 1, "(i) ")
        /\ Contains(OutText, "No changes")

(***************************************************************************)
(* Claims about the event loop.                                            *)
(***************************************************************************)
\* C11: a task with an external operation outstanding (a git subprocess,
\* the git availability probe, a transcript fetch) does not hold the event
\* loop, so that another request that is new or ready to resume can run.
C11_OutstandingIOFreesLoop ==
    \A t \in Tasks : t_io[t] # "none" => loop # t

(***************************************************************************)
(* Claims about summarize_sections.                                        *)
(***************************************************************************)
\* C14: summarize_sections returns the text unchanged whenever the text is
\* not longer than max_length, the empty text included.
C14_ShortTextUnchanged ==
    (ss_pc = "returned" /\ Len(ss_text) <= ss_max_length) => ss_ret = ss_text

\* A text of exactly max_length characters came back as it was.
C14_Witness ==
    /\ ss_pc = "returned"
    /\ ss_text # "" /\ Len(ss_text) = ss_max_length
    /\ ss_ret = ss_text

\* C15: for a text longer than max_length the omitted count is not negative
\* and, added to the lengths of the three excerpts as accumulated, does not
\* exceed the length of the text; a text that is one sentence with no place
\* to split leaves the three excerpts empty and omitted = len(text).
C15_OmittedWithinText ==
    (ss_pc = "returned" /\ Len(ss_text) > ss_max_length) =>
        /\ ss_loc.omitted >= 0
        /\ ss_loc.omitted + Len(ss_loc.start) + Len(ss_loc.mid) + Len(ss_loc.end)
             <= Len(ss_text)
        /\ SplitSentences(ss_text) = <<ss_text>> =>
              /\ ss_loc.start = "" /\ ss_loc.mid = "" /\ ss_loc.end = ""
              /\ ss_loc.omitted = Len(ss_text)

\* A long text gave three excerpts that are not empty and a part left out.
C15_Witness ==
    /\ ss_pc = "returned"
    /\ Len(ss_text) > ss_max_length
    /\ ss_loc.start # "" /\ ss_loc.mid # "" /\ ss_loc.end # ""
    /\ ss_loc.omitted > 0

\* C16: for max_length in 200..5000 the string summarize_sections returns,
\* the labelled composite included, is at most max_length characters long.
C16_SummaryWithinMaxLength ==
    (ss_pc = "returned" /\ ss_max_length \in MinMaxLen..MaxMaxLen) =>
        Len(ss_ret) <= ss_max_length

(***************************************************************************)
(* Claims about extract_video_id.                                          *)
(***************************************************************************)
\* The string the call was given: url or "".
UrlString == IF ev_url = None THEN "" ELSE ev_url.s

\* C17: extract_video_id returns None, when no pattern matches, or the 11
\* characters over [0-9A-Za-z_-] that the first pattern to match, in the
\* order tried, captures; dQw4w9WgXcQ for the watch and the youtu.be url of
\* that id, None for 'not a url' and for an empty or missing url.
C17_FirstPatternToken ==
    ev_pc = "returned" =>
        /\ ev_ret.kind = "return"
        /\ IF \A p \in 1..NumPatterns : Search(p, UrlString) = ""
           THEN ev_ret.value = None
           ELSE /\ ev_ret.value.t = "str"
                /\ Len(ev_ret.value.s) = 11
                /\ \A i \in 1..11 : At(ev_ret.value.s, i) \in CharSet(IdChars)
                /\ \E p \in 1..NumPatterns :
                      /\ ev_ret.value.s = Search(p, UrlString)
                      /\ \A r \in 1..(p - 1) : Search(r, UrlString) = ""
        /\ UrlString \in {"https://www.youtube.com/watch?v=dQw4w9WgXcQ",
                           "https://youtu.be/dQw4w9WgXcQ"}
             => ev_ret.value = PyStr("dQw4w9WgXcQ")
        /\ UrlString \in {"not a url", ""} => ev_ret.value = None

\* The id came out of a url in which a later pattern matches elsewhere.
C17_Witness ==
    /\ ev_pc = "returned"
    /\ ev_url = PyStr("https://x.io/AAAAAAAAAAA/embed/dQw4w9WgXcQ")
    /\ ev_ret = Return(PyStr("AAAAAAAAAAA"))

(***************************************************************************)
(* Claims about _infer_type_and_scope.                                     *)
(***************************************************************************)
\* The paths of the change list the call was given.
ChangedPaths == [i \in 1..Len(it_changed) |-> it_changed[i][2]]

\* The order in which the types take precedence.
TypePriority == <<"fix", "docs", "test", "build", "refactor", "perf">>

\* The keyword group of a type matches the lowercased concatenation of the
\* paths.
TypeMatches(type) ==
    \E i \in 1..Len(TypeGroups) :
        /\ TypeGroups[i].type = type
        /\ GroupMatches(TypeGroups[i], Lower(JoinPaths(ChangedPaths)))

\* C18: _infer_type_and_scope gives (chore, None) for an empty change list;
\* otherwise the type is the first of fix, docs, test, build, refactor, perf
\* whose keyword group matches the lowercased concatenation of the paths, and
\* feat when none does.  README.md gives docs, src/app/main.py gives feat,
\* tests/test_x.py gives test.
C18_TypeByPriority ==
    it_pc = "returned" =>
        /\ it_changed = <<>> => it_ret = <<"chore", None>>
        /\ it_changed # <<>> =>
              IF \E k \in 1..Len(TypePriority) : TypeMatches(TypePriority[k])
              THEN \E k \in 1..Len(TypePriority) :
                      /\ it_ret[1] = TypePriority[k]
                      /\ TypeMatches(TypePriority[k])
                      /\ \A j \in 1..(k - 1) : ~TypeMatches(TypePriority[j])
              ELSE it_ret[1] = "feat"
        /\ it_changed = << <<"M", "README.md">> >> => it_ret[1] = "docs"
        /\ it_changed = << <<"A", "src/app/main.py">> >> => it_ret[1] = "feat"
        /\ it_changed = << <<"M", "tests/test_x.py">> >> => it_ret[1] = "test"

\* A path with a keyword of docs and one of fix gave fix.
C18_Witness ==
    /\ it_pc = "returned"
    /\ it_changed = << <<"M", "README.md">>, <<"M", "docs/BugFix.md">> >>
    /\ it_ret[1] = "fix"

\* The leading segment of a path that holds a '/'.
LeadingSegment(path) ==
    SubSeq(path, 1, (CHOOSE i \in 1..Len(path) :
                        At(path, i) = "/" /\ \A k \in 1..(i - 1) : At(path, k) # "/") - 1)

\* The path can give the scope.
GivesScope(path) == Contains(path, "/") /\ LeadingSegment(path) \notin {".", ".."}

\* C19: the scope _infer_type_and_scope returns is the leading segment, as
\* written, of the first path in the order of the list that holds a '/' and
\* whose leading segment is neither '.' nor '..'; None when there is no such
\* path.  src/app/main.py gives src, README.md gives None.
C19_ScopeFromFirstDirectory ==
    it_pc = "returned" =>
        /\ IF \E i \in 1..Len(ChangedPaths) : GivesScope(ChangedPaths[i])
           THEN \E i \in 1..Len(ChangedPaths) :
                   /\ GivesScope(ChangedPaths[i])
                   /\ \A k \in 1..(i - 1) : ~GivesScope(ChangedPaths[k])
                   /\ it_ret[2] = PyStr(LeadingSegment(ChangedPaths[i]))
           ELSE it_ret[2] = None
        /\ it_changed = << <<"A", "src/app/main.py">> >> => it_ret[2] = PyStr("src")
        /\ it_changed = << <<"M", "README.md">> >> => it_ret[2] = None

\* A path under ./ was passed over and the next path gave the scope.
C19_Witness ==
    /\ it_pc = "returned"
    /\ it_changed = << <<"A", "./run.sh">>, <<"M", "tests/test_x.py">> >>
    /\ it_ret[2] = PyStr("tests")

(***************************************************************************)
(* Claims about the rules of commit_suggester.handle.                      *)
(***************************************************************************)
\* x is one of the allowed types of the call: an element of the list, or,
\* for a value that is no list, what Python's 'in' makes of it.
AllowedHas(x) ==
    IF h_loc.allowed_types.t = "list"
    THEN x \in {h_loc.allowed_types.l[i] : i \in 1..Len(h_loc.allowed_types.l)}
    ELSE PyIn(x, h_loc.allowed_types) = "yes"

\* The rules for scope and type have been applied.
RulesEnforced ==
    /\ h_tool = "commit_suggester"
    /\ h_pc = "format"

\* C20: once the rules are applied the commit type is one of the allowed
\* types: the inferred or branch-given type if that is allowed, else feat if
\* feat is allowed, else the first allowed type; with fix and docs allowed,
\* feat becomes fix.
C20_FinalTypeAllowed ==
    RulesEnforced =>
        /\ AllowedHas(h_loc.ctype)
        /\ AllowedHas(h_loc.ctype_in) => h_loc.ctype = h_loc.ctype_in
        /\ ~AllowedHas(h_loc.ctype_in) =>
              h_loc.ctype = IF AllowedHas(PyStr("feat")) THEN PyStr("feat")
                            ELSE PyFirst(h_loc.allowed_types).value
        /\ (h_loc.allowed_types = PyList(<<PyStr("fix"), PyStr("docs")>>)
              /\ h_loc.ctype_in = PyStr("feat")) => h_loc.ctype = PyStr("fix")

\* A docs change on a branch that names no type, with fix and feat allowed,
\* was given the type feat.
C20_Witness ==
    /\ RulesEnforced
    /\ h_loc.allowed_types = PyList(<<PyStr("fix"), PyStr("feat")>>)
    /\ h_loc.branch = PyStr("main")
    /\ h_loc.ctype_in = PyStr("docs")
    /\ h_loc.ctype = PyStr("feat")

\* x is one of the scopes of scope_enum: an element of the list, or, for a
\* value that is no list, what Python's 'in' makes of it.
ScopeEnumHas(x) ==
    IF h_loc.scope_enum.t = "list"
    THEN x \in {h_loc.scope_enum.l[i] : i \in 1..Len(h_loc.scope_enum.l)}
    ELSE PyIn(x, h_loc.scope_enum) = "yes"

\* The scope after the test against scope_enum.
GatedScope ==
    IF Truthy(h_loc.scope_enum) /\ ~ScopeEnumHas(h_loc.scope_in) THEN None
    ELSE h_loc.scope_in

\* C21: once the rules are applied, a scope (inferred or given by the branch)
\* that is not in a configured scope_enum is None, a scope in it is kept, and
\* a scope that is None after that is 'core' when require_scope is set; with
\* scope_enum = [api] the inferred scope src ends as None, or as core when a
\* scope is required.
C21_ScopeGating ==
    RulesEnforced =>
        /\ h_loc.scope_guess =
              IF h_loc.require_scope /\ GatedScope = None THEN PyStr("core")
              ELSE GatedScope
        /\ (Truthy(h_loc.scope_enum) /\ ScopeEnumHas(h_loc.scope_in))
              => h_loc.scope_guess = h_loc.scope_in
        /\ (h_loc.scope_enum = PyList(<<PyStr("api")>>) /\ h_loc.scope_in = PyStr("src"))
              => h_loc.scope_guess = None

\* The inferred scope src, not in scope_enum, became core for a call that
\* requires a scope.
C21_Witness ==
    /\ RulesEnforced
    /\ h_loc.scope_enum = PyList(<<PyStr("api"), PyStr("login")>>)
    /\ h_loc.require_scope
    /\ h_loc.scope_in = PyStr("src")
    /\ h_loc.scope_guess = PyStr("core")

(***************************************************************************)
(* Claims about the subjects and the renderings of commit_suggester.       *)
(***************************************************************************)
\* C22: whatever the subject and subject_max are, the subject that
\* _truncate_subject returns (the emoji prefix included) is at most
\* subject_max characters long; a subject of at most subject_max characters
\* comes back unchanged, a longer one as its first subject_max - 1 characters
\* and the one-character marker.
C22_SubjectWithinMax ==
    tr_pc = "returned" =>
        /\ Len(tr_ret) <= tr_max_len
        /\ Len(tr_text) <= tr_max_len => tr_ret = tr_text
        /\ Len(tr_text) > tr_max_len
              => tr_ret = Prefix(tr_text, Max(0, tr_max_len - 1)) \o Ellipsis

\* C23: a context with a non-empty scope, no body and no breaking flag (type
\* feat, scope core, subject 'add x' among them) is rendered by
\* _format_conventional_message as the header type(scope): subject, and
\* _apply_custom_format with the template {type}({scope}): {subject} gives
\* the identical string.
C23_TemplateRoundTrip ==
    (/\ cf_pc = "returned"
     /\ cf_in.format = HeaderTemplate
     /\ Truthy(cf_in.context.scope)
     /\ cf_in.context.body = <<>>
     /\ ~cf_in.breaking)
    => /\ cf_ret.conventional =
            cf_in.context.type \o "(" \o cf_in.context.scope.s \o "): "
              \o cf_in.context.subject
       /\ cf_ret.custom = cf_ret.conventional

(***************************************************************************)
(* Claims about the branch name in commit_suggester.handle.                *)
(***************************************************************************)
\* The prefixes a branch name is tested for, each with the type it gives.
BranchTypes ==
    {<<"feature", "feat">>, <<"fix", "fix">>, <<"docs", "docs">>,
     <<"refactor", "refactor">>, <<"test", "test">>, <<"chore", "chore">>,
     <<"perf", "perf">>, <<"build", "build">>}

\* The branch is known and begins with the prefix.
BranchBegins(prefix) ==
    /\ h_loc.branch # None
    /\ StartsAt(h_loc.branch.s, 1, prefix)

\* seg is the segment that follows 'prefix/' in the branch name: not empty,
\* without a slash, and ended by a slash or by the end of the name.
BranchSegment(prefix, seg) ==
    /\ seg # ""
    /\ ~Contains(seg, "/")
    /\ \/ h_loc.branch.s = prefix \o "/" \o seg
       \/ StartsAt(h_loc.branch.s, 1, prefix \o "/" \o seg \o "/")

\* The segments the branch names of the model hold.
Segments == {"login", "main", "HEAD"}

\* C24: a branch name that begins with feature, fix, docs, refactor, test,
\* chore, perf or build overwrites the inferred type (feature gives feat,
\* the others themselves), and a '/segment' after the prefix overwrites the
\* scope; an unknown branch or one that begins with none of the prefixes
\* leaves type and scope as inferred.  The scope test and the type test of
\* the rules are made on the overwritten values.
C24_BranchOverride ==
    RulesEnforced =>
        LET inferred == _infer_type_and_scope(h_loc.changed)
            named == \E bt \in BranchTypes : BranchBegins(bt[1])
        IN  /\ \A bt \in BranchTypes :
                  BranchBegins(bt[1]) =>
                     /\ h_loc.ctype_in = PyStr(bt[2])
                     /\ \A seg \in Segments :
                           BranchSegment(bt[1], seg) => h_loc.scope_in = PyStr(seg)
                     /\ (~\E seg \in Segments : BranchSegment(bt[1], seg))
                           => h_loc.scope_in = inferred[2]
            /\ ~named => /\ h_loc.ctype_in = PyStr(inferred[1])
                         /\ h_loc.scope_in = inferred[2]
            /\ AllowedHas(h_loc.ctype_in) => h_loc.ctype = h_loc.ctype_in
            /\ (Truthy(h_loc.scope_in) /\ ~Truthy(h_loc.scope_enum))
                  => h_loc.scope_guess = h_loc.scope_in

\* On the branch feature/login a change of README.md alone, inferred as docs
\* without a scope, was given the type feat and the scope login.
C24_Witness ==
    /\ RulesEnforced
    /\ h_loc.branch = PyStr("feature/login")
    /\ _infer_type_and_scope(h_loc.changed) = <<"docs", None>>
    /\ h_loc.ctype_in = PyStr("feat")
    /\ h_loc.scope_in = PyStr("login")
    /\ h_loc.ctype = PyStr("feat")
    /\ h_loc.scope_guess = PyStr("login")

(***************************************************************************)
(* Claims about the file names _infer_type_and_scope knows.                *)
(***************************************************************************)
\* s.endswith(suffix)
EndsWith(s, suffix) ==
    Len(suffix) <= Len(s) /\ SubSeq(s, Len(s) - Len(suffix) + 1, Len(s)) = suffix

\* A path of the change list has the extension .md.
HasMarkdown == \E i \in 1..Len(ChangedPaths) : EndsWith(Lower(ChangedPaths[i]), ".md")

\* A path of the change list is a package.json, a requirements.txt or a
\* file that ends in .lock.
HasBuildFile ==
    \E i \in 1..Len(ChangedPaths) :
        \/ Contains(Lower(ChangedPaths[i]), "package.json")
        \/ Contains(Lower(ChangedPaths[i]), "requirements.txt")
        \/ EndsWith(Lower(ChangedPaths[i]), ".lock")

\* C25: a change list that matches no group of higher priority is given the
\* type docs when a path has the extension .md (notes.md), and the type
\* build when it holds a package.json, a requirements.txt or a file that
\* ends in .lock.
C25_DocsAndBuildByExtension ==
    it_pc = "returned" =>
        /\ (HasMarkdown /\ ~TypeMatches("fix")) => it_ret[1] = "docs"
        /\ (HasBuildFile /\ ~HasMarkdown /\ ~TypeMatches("fix") /\ ~TypeMatches("docs")
               /\ ~TypeMatches("test"))
              => it_ret[1] = "build"

(***************************************************************************)
(* Claims about _summarize_status.                                         *)
(***************************************************************************)
\* The tab-separated fields of a line without its surrounding whitespace.
Fields(line) == Split(Strip(line), "\t")

\* The line is not empty and has at least two fields.
WellFormed(line) == Strip(line) # "" /\ Len(Fields(line)) >= 2

RECURSIVE RecordsOf(_)
\* One record for each well-formed line, in the order of the lines: the
\* first character of the first field and the last field.
RecordsOf(lines) ==
    IF lines = <<>> THEN <<>>
    ELSE (IF WellFormed(Head(lines))
          THEN << <<At(Fields(Head(lines))[1], 1),
                    Fields(Head(lines))[Len(Fields(Head(lines)))]>> >>
          ELSE <<>>)
           \o RecordsOf(Tail(lines))

\* The number of records with the status c.
CountOf(c) ==
    Cardinality({i \in 1..Len(su_ret.changed) : su_ret.changed[i][1] = c})

\* C26: _summarize_status records each non-empty line of at least two
\* tab-separated fields once, in input order, as the first character of the
\* first field and the last field, and no other line; a record counts in
\* added, modified, deleted or renamed for A, M, D or R and in none for
\* another status, so the counts sum to at most the number of records;
\* 'R100<TAB>old<TAB>new' is recorded with the path new.
C26_OneRecordPerLine ==
    su_pc = "returned" =>
        /\ su_ret.changed = RecordsOf(su_lines)
        /\ su_ret.stats.added = CountOf("A")
        /\ su_ret.stats.modified = CountOf("M")
        /\ su_ret.stats.deleted = CountOf("D")
        /\ su_ret.stats.renamed = CountOf("R")
        /\ su_ret.stats.added + su_ret.stats.modified + su_ret.stats.deleted
              + su_ret.stats.renamed <= Len(su_ret.changed)
        /\ su_lines = <<"R100\told.py\tnew.py">>
              => su_ret.changed = << <<"R", "new.py">> >>

\* A rename, a line without a tab and a type change: two records, the
\* rename with its new path, and one of them counted.
C26_Witness ==
    /\ su_pc = "returned"
    /\ su_lines = <<"R100\told.py\tnew.py", "nofields", "T\tq.py">>
    /\ su_ret.changed = << <<"R", "new.py">>, <<"T", "q.py">> >>
    /\ su_ret.stats = [added |-> 0, modified |-> 0, deleted |-> 0, renamed |-> 1]

(***************************************************************************)
(* Claims about the candidates of commit_suggester.handle.                 *)
(***************************************************************************)
\* The call went through the rules and has ended.
Formatted ==
    /\ h_tool = "commit_suggester"
    /\ h_pc = "done"
    /\ h_loc.ctype # None

\* suggestions clamped to [1,10]
ClampedSuggestions ==
    IF h_loc.suggestions.t = "int" THEN Max(1, Min(10, h_loc.suggestions.n)) ELSE 1

\* The table of the type in the locale of the call: the Korean table for ko,
\* the English one otherwise; for a type without a table the one generic
\* phrase of that locale.
LocaleTable ==
    IF h_loc.ctype.s \in TemplateTypes
    THEN IF h_loc.lang = "ko" THEN TemplatesKo(h_loc.ctype.s)
         ELSE TemplatesEn(h_loc.ctype.s)
    ELSE IF h_loc.lang = "ko" THEN <<GenericKo>> ELSE <<GenericEn>>

\* C27: handle builds its messages from the first k templates of the table
\* of the type, in table order, k being suggestions clamped to [1,10]; it
\* returns min(k, number of templates) messages, at least one, and for a type
\* without a table the one generic 'update' phrase of the locale of the call.
C27_CandidatesFromTemplates ==
    Formatted =>
        /\ h_out.kind = "return"
        /\ h_loc.subject_templates = Prefix(LocaleTable, ClampedSuggestions)
        /\ Len(h_loc.messages) = Min(ClampedSuggestions, Len(LocaleTable))
        /\ Len(h_loc.messages) >= 1

(***************************************************************************)
(* Claims about the two maps of ToolRegistry.                              *)
(***************************************************************************)
\* A register call raised in this step.
RegisterFailed ==
    /\ Len(reg_log') = Len(reg_log) + 1
    /\ reg_log'[Len(reg_log')].out.kind = "raise"

\* C28: in every reachable state the descriptor map and the handler map of
\* ToolRegistry have the same keys, and a register call that fails for a
\* duplicate name leaves both maps as they were.
C28_MapsShareKeys ==
    /\ [](KeySet(_tools) = KeySet(_handlers))
    /\ [][RegisterFailed => (_tools' = _tools /\ _handlers' = _handlers)]_vars

\* Two names are registered in both maps, and a register call was refused.
C28_Witness ==
    /\ Len(_tools) = 2
    /\ KeySet(_handlers) = KeySet(_tools)
    /\ \E i \in 1..Len(reg_log) : reg_log[i].out.kind = "raise"

(***************************************************************************)
(* Claims about the order of the steps of commit_suggester.handle.         *)
(***************************************************************************)
\* The call of commit_suggester.handle ended with a returned text that
\* begins with `text`.
EndedWith(text) ==
    /\ h_tool = "commit_suggester"
    /\ h_pc = "done"
    /\ h_out.kind = "return"
    /\ StartsAt(OutText, 1, text)

\* The call ended at a step that comes before the diff command.
EndedBeforeDiff ==
    \/ PathRefused /\ h_tool = "commit_suggester" /\ h_pc = "done"
    \/ EndedWith("Git setup problem")
    \/ EndedWith("Git repository problem")
    \/ EndedWith("unknown mode")
    \/ EndedWith("mode=range without a range value")

\* _run_git_safe has been called with the command cmd.
GitCalled(cmd) == g_pc # "idle" /\ Len(g_args) > 0 /\ g_args[1] = PyStr(cmd)

\* The debug lines hold the git check before the repository check.
ChecksLogged ==
    \E i, j \in 1..Len(h_loc.debug_info) :
        /\ i < j
        /\ StartsAt(h_loc.debug_info[i], 1, "git check: ")
        /\ StartsAt(h_loc.debug_info[j], 1, "repository check: ")

TranscriptTools == {"summarize_youtube", "transcript_stats"}

\* extract_video_id finds no id in the url argument: it returns None or it
\* does not return at all.
NoVideoId ==
    LET vid == extract_video_id(Get(h_args, "url"))
    IN  vid.kind = "raise" \/ ~Truthy(vid.value)

\* The fetch has returned to the handler without entries.
FetchedNothing ==
    /\ f_pc = "done"
    /\ f_ret.kind = "return"
    /\ f_ret.value[1] = <<>>

InvalidUrlText(tool) ==
    IF tool = "summarize_youtube"
    THEN "Not a valid YouTube URL. Example: https://youtu.be/<VIDEO_ID>"
    ELSE "Not a valid YouTube URL."

NoTranscriptText(tool) ==
    IF tool = "summarize_youtube"
    THEN "No transcript available. Try another language code "
           \o "(e.g. ko, en, ja) or check for auto-generated captions."
    ELSE "No transcript found."

\* C30: in summarize_youtube.handle and transcript_stats.handle, a url from
\* which no video id can be extracted (a missing or empty url included) never
\* leads to a call of the transcript service and ends the handler with the one
\* text item of the invalid-URL message; a fetch without entries ends it with
\* the one text item of the no-transcript message; neither case raises.
C30_NoDataReturnsOneText ==
    h_tool \in TranscriptTools =>
        /\ NoVideoId => f_calls = <<>> /\ f_pc = "idle"
        /\ (h_pc = "done" /\ NoVideoId) =>
              h_out = Return(<<TextContent(InvalidUrlText(h_tool))>>)
        /\ (h_pc = "done" /\ FetchedNothing) =>
              h_out = Return(<<TextContent(NoTranscriptText(h_tool))>>)

====
